---- MODULE Spec2Model ----
(***************************************************************************)
(* niauth-js: the SRP handshake of src/lib/SRP.ts (SRPOps, Client, Server) *)
(* with the byte codec of lib/BigInt.ts and the helpers of lib/Utils.ts.   *)
(*                                                                         *)
(* Big integers are TLA+ integers.  Byte arrays (Uint8Array) are sequences *)
(* of 0..255, hex "hash strings" are sequences of hex digits 0..15 and     *)
(* JavaScript strings are sequences of character codes.  An optional value *)
(* (a field that may be undefined, a property that may be missing) is the  *)
(* empty sequence when absent and a one-element sequence when present.     *)
(* A function that can throw returns [err, val]: err is "" on a normal     *)
(* return and the thrown string otherwise.                                 *)
(***************************************************************************)
EXTENDS Integers, Sequences, FiniteSets, TLC

(***************************************************************************)
(* Bounds of the model.  The code pads N, A, B and S to 128 bytes, the     *)
(* width of its 1024-bit moduli; the moduli of the model are below 256 and *)
(* the width is scaled to them.  a and b are 512-bit random numbers in the *)
(* code and range over 0..MaxRand here.  A run makes at most MaxCalls calls *)
(* on the two session objects together.                                    *)
(***************************************************************************)
PadWidth == 1
MaxRand == 1
MaxCalls == 5
MaxModulus == 7
MaxExponent == 2
MaxValue == 600
MaxWidth == 2
MaxLen == 4
MaxChunks == 2

None == <<>>
Some(x) == <<x>>
IsSome(o) == o # <<>>
Get(o) == o[1]

Ok(v) == [err |-> "", val |-> v]
Err(e) == [err |-> e, val |-> <<>>]

(***************************************************************************)
(* lib/Utils.ts                                                            *)
(***************************************************************************)
\* parseInt of each two-character slice; a trailing single character is a
\* slice of its own.
HashStringToByteArray(str) ==
    [j \in 1..((Len(str) + 1) \div 2) |->
        IF 2 * j <= Len(str) THEN str[2 * j - 1] * 16 + str[2 * j]
                             ELSE str[2 * j - 1]]

\* two hex digits per byte, high digit first
byteArrayToHashString(ar) ==
    [j \in 1..(2 * Len(ar)) |->
        IF j % 2 = 1 THEN (ar[(j + 1) \div 2] % 256) \div 16
                     ELSE (ar[j \div 2] % 256) % 16]

\* bitwise xor of two numbers below 2^16
RECURSIVE BitXor(_, _)
BitXor(m, n) ==
    IF m = 0 THEN n
    ELSE IF n = 0 THEN m
    ELSE (((m % 2) + (n % 2)) % 2) + 2 * BitXor(m \div 2, n \div 2)

\* parseInt(s, 16) of a slice of hex digits
RECURSIVE parseIntHex(_)
parseIntHex(s) ==
    IF s = <<>> THEN 0
    ELSE parseIntHex(SubSeq(s, 1, Len(s) - 1)) * 16 + s[Len(s)]

\* Number.prototype.toString(16): the minimal hex digits, "0" for zero
RECURSIVE toString16(_)
toString16(n) ==
    IF n < 16 THEN <<n>> ELSE Append(toString16(n \div 16), n % 16)

\* the digits of toString(16) as they are, without the '0000' in front
Last4_Unpadded(s) == s

\* ('0000' + s).substr(-4)
Last4(s) ==
    LET t == <<0, 0, 0, 0>> \o s
    IN SubSeq(t, Len(t) - 3, Len(t))

RECURSIVE xorChunks(_, _, _)
xorChunks(a, b, i) ==
    IF i > Len(a) THEN <<>>
    ELSE LET hi == IF i + 3 <= Len(a) THEN i + 3 ELSE Len(a)
             ac == parseIntHex(SubSeq(a, i, hi))
             bc == parseIntHex(SubSeq(b, i, hi))
         IN Last4(toString16(BitXor(ac, bc))) \o xorChunks(a, b, i + 4)

\* xorHashStrings refusing only a first string longer than the second
xorHashStrings_LongerOnly(a, b) ==
    IF Len(a) > Len(b) THEN Err("strings not same length")
    ELSE Ok(xorChunks(a, b, 1))

xorHashStrings(a, b) ==
    IF Len(a) # Len(b) THEN Err("strings not same length")
    ELSE Ok(xorChunks(a, b, 1))

(***************************************************************************)
(* lib/SHA1.ts: the digest is an external primitive.  The model keeps what *)
(* the protocol uses of it: a deterministic function of the whole byte     *)
(* sequence (order and length included) into a fixed-width hex string.     *)
(* The digest space is small, so that the zero digest the code checks for  *)
(* is a value the function takes.                                          *)
(***************************************************************************)
DigestSpace == 13

RECURSIVE sha1Mix(_)
sha1Mix(bytes) ==
    IF bytes = <<>> THEN 5
    ELSE (sha1Mix(SubSeq(bytes, 1, Len(bytes) - 1)) * 7
            + bytes[Len(bytes)] + Len(bytes)) % DigestSpace

\* the digest as a hash string of four hex digits (two bytes)
sha1(bytes) ==
    LET h == sha1Mix(bytes)
    IN <<0, 0, h \div 16, h % 16>>

(***************************************************************************)
(* lib/BigInt.ts                                                           *)
(***************************************************************************)
\* BigInt('0x' + hex): a SyntaxError when no digit follows the prefix
bigIntFromHex(hex) ==
    IF hex = <<>> THEN Err("SyntaxError") ELSE Ok(parseIntHex(hex))

\* toString(16) as it is, whatever the number of its digits
bigIntToHex_NoLeadingZero(ba) == toString16(ba)

\* toString(16) with a leading 0 when the number of digits is odd
bigIntToHex(ba) ==
    LET s == toString16(ba)
    IN IF Len(s) % 2 # 0 THEN <<0>> \o s ELSE s

bigIntFromByteArray(array) == bigIntFromHex(byteArrayToHashString(array))

\* bigIntegerToBytes keeping the low bytes whatever the bytes it drops
bigIntegerToBytes_Truncating(bi, byteCount) ==
    LET bytes == HashStringToByteArray(bigIntToHex(bi))
        actualByteLength == Len(bytes)
    IN IF actualByteLength = byteCount THEN Ok(bytes)
       ELSE IF actualByteLength < byteCount
       THEN Ok([i \in 1..(byteCount - actualByteLength) |-> 0] \o bytes)
       ELSE Ok(SubSeq(bytes, actualByteLength - byteCount + 1,
                      actualByteLength))

bigIntegerToBytes(bi, byteCount) ==
    LET bytes == HashStringToByteArray(bigIntToHex(bi))
        actualByteLength == Len(bytes)
    IN IF actualByteLength = byteCount THEN Ok(bytes)
       ELSE IF actualByteLength < byteCount
       THEN Ok([i \in 1..(byteCount - actualByteLength) |-> 0] \o bytes)
       ELSE LET leaders == SubSeq(bytes, 1, actualByteLength - byteCount)
            IN IF \E i \in 1..Len(leaders) : leaders[i] # 0
               THEN Err("attmpted to truncate")
               ELSE Ok(SubSeq(bytes, actualByteLength - byteCount + 1,
                              actualByteLength))

(***************************************************************************)
(* bigint-mod-arith                                                        *)
(***************************************************************************)
\* the residue in 0..n-1
toZn(a, n) == a % n

RECURSIVE modPow(_, _, _)
modPow(b, e, n) ==
    IF n = 1 THEN 0
    ELSE IF e = 0 THEN 1
    ELSE LET h == modPow(b, e \div 2, n)
             sq == (h * h) % n
         IN IF e % 2 = 1 THEN (sq * toZn(b, n)) % n ELSE sq

modAdd2(x, y, n) == toZn(toZn(x, n) + toZn(y, n), n)
modAdd1(x, n) == toZn(x, n)
modMultiply2(x, y, n) == toZn(toZn(x, n) * toZn(y, n), n)

(***************************************************************************)
(* lib/SRP.ts: SRPOps.  Arguments are optional values: an absent one is an *)
(* argument that is undefined (not a bigint, not a byte array, not a       *)
(* string).                                                                *)
(***************************************************************************)
GWidth == 1
Colon == 58

isbigint(x) == IsSome(x)
arebigints(numbers) == \A i \in 1..Len(numbers) : isbigint(numbers[i])
isString(x) == IsSome(x)
isUint8Array(s) == IsSome(s)

\* the first error of a sequence of results, "" when none failed
RECURSIVE FirstErr(_)
FirstErr(rs) ==
    IF rs = <<>> THEN ""
    ELSE IF rs[1].err # "" THEN rs[1].err
    ELSE FirstErr(Tail(rs))

MGF1SHA1(byteArray) ==
    sha1(byteArray \o <<0, 0, 0, 0>>) \o sha1(byteArray \o <<0, 0, 0, 1>>)

SRPOps_A(N, g, a) ==
    IF ~arebigints(<<N, g, a>>)
    THEN Err("invalid argument: N, g and a should be big int for A")
    ELSE Ok(modPow(Get(g), Get(a), Get(N)))

SRPOps_k(N, g) ==
    IF ~arebigints(<<N, g>>)
    THEN Err("invalid argument: N and g must be big int for k.")
    ELSE LET Nb == bigIntegerToBytes(Get(N), PadWidth)
             gb == bigIntegerToBytes(Get(g), PadWidth)
         IN IF FirstErr(<<Nb, gb>>) # "" THEN Err(FirstErr(<<Nb, gb>>))
            ELSE bigIntFromHex(sha1(Nb.val \o gb.val))

SRPOps_B(N, g, v, b) ==
    LET k == SRPOps_k(N, g)
    IN IF k.err # "" THEN k
       ELSE IF ~isbigint(b) \/ ~isbigint(v) THEN Err("TypeError")
       ELSE LET mod_pow == modPow(Get(g), Get(b), Get(N))
                kv == k.val * Get(v)
            IN Ok(modAdd2(kv, mod_pow, Get(N)))

SRPOps_u(A, B) ==
    IF ~arebigints(<<A, B>>)
    THEN Err("invalid argument: A and B must be big int for u")
    ELSE LET Ab == bigIntegerToBytes(Get(A), PadWidth)
             Bb == bigIntegerToBytes(Get(B), PadWidth)
         IN IF FirstErr(<<Ab, Bb>>) # "" THEN Err(FirstErr(<<Ab, Bb>>))
            ELSE bigIntFromHex(sha1(Ab.val \o Bb.val))

SRPOps_x(salt, username, password) ==
    LET user == IF IsSome(username) THEN username ELSE Some(<<>>)
        pass == IF IsSome(password) THEN password ELSE Some(<<>>)
    IN IF ~isUint8Array(salt)
       THEN Err("invalid argument: salt must be byte array for x")
       ELSE IF ~isString(user) \/ ~isString(pass)
       THEN Err("invalid argument: User and password must be string for x")
       ELSE LET concat1 == Get(user) \o <<Colon>> \o Get(pass)
                concat1ShaBytes == HashStringToByteArray(sha1(concat1))
                concat2 == Get(salt) \o concat1ShaBytes
            IN bigIntFromHex(sha1(concat2))

\* the intermediate values of SRPOps.Sc
Sc_n_sub_g_modpow_x(N, g, x) == N - modPow(g, x, N)

\* b_prime as the signed difference B - k * g^x, without the detour over N
Sc_b_prime_Signed(N, g, B, k, x) == B - k * modPow(g, x, N)

Sc_b_prime(N, g, B, k, x) ==
    B + modMultiply2(k, Sc_n_sub_g_modpow_x(N, g, x), N)

\* SRPOps.Sc as its doc comment words it, (B - g^x) ^ (a + u * x) % N, without
\* the multiplier k
SRPOps_Sc_NoMultiplier(N, g, B, k, x, a, u) ==
    IF ~arebigints(<<N, g, B, k, x, a, u>>)
    THEN Err("invalid argument: N, g, B, k, x, a, u bust be big ints for Sc")
    ELSE LET g_modpow_x_n == modPow(Get(g), Get(x), Get(N))
             n_sub_g_modpow_x == Get(N) - g_modpow_x_n
             b_prime == Get(B) + n_sub_g_modpow_x
         IN Ok(modPow(b_prime, Get(a) + (Get(u) * Get(x)), Get(N)))

SRPOps_Sc(N, g, B, k, x, a, u) ==
    IF ~arebigints(<<N, g, B, k, x, a, u>>)
    THEN Err("invalid argument: N, g, B, k, x, a, u bust be big ints for Sc")
    ELSE LET b_prime == Sc_b_prime(Get(N), Get(g), Get(B), Get(k), Get(x))
         IN Ok(modPow(b_prime, Get(a) + (Get(u) * Get(x)), Get(N)))

\* Ss with u and b taken for one another
SRPOps_Ss_SwappedExponents(N, A, v, u, b) ==
    IF ~arebigints(<<N, A, v, b, u>>)
    THEN Err("invalid argument: N, A, v, b, u must be big int for Ss")
    ELSE LET v_modpow_u_n == modPow(Get(v), Get(b), Get(N))
         IN Ok(modPow(Get(A) * v_modpow_u_n, Get(u), Get(N)))

SRPOps_Ss(N, A, v, u, b) ==
    IF ~arebigints(<<N, A, v, b, u>>)
    THEN Err("invalid argument: N, A, v, b, u must be big int for Ss")
    ELSE LET v_modpow_u_n == modPow(Get(v), Get(u), Get(N))
         IN Ok(modPow(Get(A) * v_modpow_u_n, Get(b), Get(N)))

SRPOps_K(S) ==
    IF ~isbigint(S) THEN Err("invalid argument: S must be big int for K")
    ELSE LET Sb == bigIntegerToBytes(Get(S), PadWidth)
         IN IF Sb.err # "" THEN Sb
            ELSE Ok(HashStringToByteArray(MGF1SHA1(Sb.val)))

SRPOps_Mc(N, g, username, salt, A, B, K) ==
    LET user == IF IsSome(username) THEN username ELSE Some(<<>>)
    IN IF ~arebigints(<<N, g, A, B>>)
       THEN Err("Invalid argument. Bigint missing for Mc")
       ELSE IF ~isUint8Array(salt) \/ ~isUint8Array(K)
       THEN Err("salt or k not an array for Mc.")
       ELSE IF ~isString(user) THEN Err("user is not a string for mc.")
       ELSE LET Nb == bigIntegerToBytes(Get(N), PadWidth)
                gb == bigIntegerToBytes(Get(g), GWidth)
                Ab == bigIntegerToBytes(Get(A), PadWidth)
                Bb == bigIntegerToBytes(Get(B), PadWidth)
                e == FirstErr(<<Nb, gb, Ab, Bb>>)
            IN IF e # "" THEN Err(e)
               ELSE LET shaN == sha1(Nb.val)
                        shag == sha1(gb.val)
                        shaUser == sha1(Get(user))
                        ret == HashStringToByteArray(
                                  xorHashStrings(shaN, shag).val)
                        shau == HashStringToByteArray(shaUser)
                        fullBytes == ret \o shau \o Get(salt) \o Ab.val
                                         \o Bb.val \o Get(K)
                    IN Ok(sha1(fullBytes))

SRPOps_Ms(A, M, K) ==
    IF ~IsSome(M) THEN Err("TypeError")
    ELSE LET Mary == HashStringToByteArray(Get(M))
         IN IF ~isbigint(A)
            THEN Err("invalid argument: A should be Big Integer for Ms")
            ELSE IF ~isUint8Array(K)
            THEN Err("invalid argument: Mary and K should be byte array for Ms")
            ELSE LET Ab == bigIntegerToBytes(Get(A), PadWidth)
                 IN IF Ab.err # "" THEN Ab
                    ELSE Ok(sha1(Ab.val \o Mary \o Get(K)))

SRPOps_v(N, g, x) ==
    IF ~arebigints(<<N, g, x>>)
    THEN Err("invalid argument: N, g and x must be big int for v.")
    ELSE Ok(modPow(Get(g), Get(x), Get(N)))

(***************************************************************************)
(* The user store behind the Server's lookupFunc (the srpDatabase of       *)
(* test/SRP.test.ts): byte arrays n, g, v, s per user, v = g^x mod N for   *)
(* the x of the user's salt, name and password.  One user has an empty     *)
(* password, as in the test.  A name outside the store looks up undefined. *)
(***************************************************************************)
UserA == <<97>>
UserB == <<98>>
UserC == <<99>>
PassEmpty == <<>>
PassP == <<112>>

Usernames == {UserA, UserB, UserC}
Passwords == {PassEmpty, PassP}

UserEntry(user, password, n, g, s) ==
    LET x == SRPOps_x(Some(s), Some(user), Some(password)).val
        v == SRPOps_v(Some(bigIntFromByteArray(n).val),
                      Some(bigIntFromByteArray(g).val), Some(x)).val
    IN [user |-> user, password |-> password, n |-> n, g |-> g,
        v |-> HashStringToByteArray(bigIntToHex(v)), s |-> s]

srpDatabase ==
    (UserA :> UserEntry(UserA, PassP, <<23>>, <<5>>, <<82, 238>>)) @@
    (UserB :> UserEntry(UserB, PassEmpty, <<11>>, <<2>>, <<144>>))

\* the lookup result: the entry, or absent for an unknown name
lookupFunc(username) ==
    IF username \in DOMAIN srpDatabase THEN Some(srpDatabase[username])
    ELSE None

LoginToken == <<49, 50, 51>>

(***************************************************************************)
(* lib/SRP.ts: Server.  Each operator is one whole call: the server object *)
(* after it, the thrown string or "", the value returned and the protocol  *)
(* values the call computed on its way.                                    *)
(***************************************************************************)
NewServer ==
    [modulus |-> None, generator |-> None, salt |-> None,
     serverPrivateKey |-> None, serverPublicKey |-> None,
     verifier |-> None, sharedKey |-> None]

Thrown(obj, e, computed) ==
    [obj |-> obj, err |-> e, ret |-> None, computed |-> computed]

Returned(obj, ret, computed) ==
    [obj |-> obj, err |-> "", ret |-> Some(ret), computed |-> computed]

\* the return of startLogin with the private key where the public key belongs
startLogin_return_PrivateKey(that) ==
    Returned(that,
             [modulus |-> that.modulus,
              generator |-> that.generator,
              salt |-> that.salt,
              publicKey |-> that.serverPrivateKey,
              loginToken |-> Some(LoginToken)],
             {"b", "B"})

\* startLogin, from its last statement back to its first
startLogin_return(that) ==
    Returned(that,
             [modulus |-> that.modulus,
              generator |-> that.generator,
              salt |-> that.salt,
              publicKey |-> that.serverPublicKey,
              loginToken |-> Some(LoginToken)],
             {"b", "B"})

startLogin_B(this, N, g, v, s, b, B) ==
    IF B.err # "" THEN Thrown(this, B.err, {"b"})
    ELSE startLogin_return([this EXCEPT !.modulus = Some(N),
                                        !.generator = Some(g),
                                        !.salt = Some(s),
                                        !.serverPrivateKey = Some(b),
                                        !.serverPublicKey = Some(B.val),
                                        !.verifier = Some(v)])

startLogin_b(this, N, g, v, s, b) ==
    startLogin_B(this, N, g, v, s, b,
                 SRPOps_B(Some(N), Some(g), Some(v), Some(b)))

startLogin_decoded(this, N, g, v, s, rnd) ==
    IF FirstErr(<<N, g, v>>) # "" THEN Thrown(this, FirstErr(<<N, g, v>>), {})
    ELSE startLogin_b(this, N.val, g.val, v.val, s, rnd)

startLogin_entry(this, entry, rnd) ==
    IF ~IsSome(entry) THEN Thrown(this, "TypeError", {})
    ELSE startLogin_decoded(this, bigIntFromByteArray(Get(entry).n),
                            bigIntFromByteArray(Get(entry).g),
                            bigIntFromByteArray(Get(entry).v),
                            Get(entry).s, rnd)

Server_startLogin(this, username, rnd) ==
    startLogin_entry(this, lookupFunc(username), rnd)

\* the guard of finishLogin
\* (without the check)
ServerZeroU_Unchecked(u) == FALSE

ServerZeroU(u) == u = 0

\* finishLogin, from its last statement back to its first: each operator is
\* the rest of the call once the value its name ends in has been computed
finishLogin_M(this, K, M) ==
    IF M.err # "" THEN Thrown(this, M.err, {"u", "S", "K"})
    ELSE Returned([this EXCEPT !.sharedKey = Some(K)],
                  [serverProof |-> M.val], {"u", "S", "K", "M"})

finishLogin_K(this, A, Mc, K) ==
    IF K.err # "" THEN Thrown(this, K.err, {"u", "S"})
    ELSE finishLogin_M(this, K.val, SRPOps_Ms(A, Mc, Some(K.val)))

finishLogin_S(this, A, Mc, S) ==
    IF S.err # "" THEN Thrown(this, S.err, {"u"})
    ELSE finishLogin_K(this, A, Mc, SRPOps_K(Some(S.val)))

finishLogin_u(this, N, b, v, A, Mc, u) ==
    IF u.err # "" THEN Thrown(this, u.err, {})
    ELSE IF ServerZeroU(u.val) THEN Thrown(this, "precondition fail", {"u"})
    ELSE finishLogin_S(this, A, Mc, SRPOps_Ss(N, A, v, Some(u.val), b))

\* finishLogin dropping the key of an earlier call before it computes
Server_finishLogin_ClearingKey(this, clientParams) ==
    finishLogin_u([this EXCEPT !.sharedKey = None],
                  this.modulus, this.serverPrivateKey, this.verifier,
                  clientParams.clientPublicKey, clientParams.clientProof,
                  SRPOps_u(clientParams.clientPublicKey, this.serverPublicKey))

Server_finishLogin(this, clientParams) ==
    finishLogin_u(this, this.modulus, this.serverPrivateKey, this.verifier,
                  clientParams.clientPublicKey, clientParams.clientProof,
                  SRPOps_u(clientParams.clientPublicKey, this.serverPublicKey))

(***************************************************************************)
(* lib/SRP.ts: Client                                                      *)
(***************************************************************************)
NewClient == [identity |-> None, serverInfo |-> None, sharedKey |-> None]

Client_setIdentity(this, identity) ==
    Returned([this EXCEPT !.identity = Some(identity)], <<>>, {})

hasOwnProperty(obj, name) == IsSome(obj[name])

\* setServerInfo without the check for salt
Client_setServerInfo_NoSaltCheck(this, serverInfo) ==
    IF ~hasOwnProperty(serverInfo, "modulus")
    THEN Thrown(this, "serverInfo needs modulus", {})
    ELSE IF ~hasOwnProperty(serverInfo, "generator")
    THEN Thrown(this, "serverInfo needs generator", {})
    ELSE IF ~hasOwnProperty(serverInfo, "publicKey")
    THEN Thrown(this, "serverInfo needs publicKey", {})
    ELSE Returned([this EXCEPT !.serverInfo = Some(serverInfo)], <<>>, {})

Client_setServerInfo(this, serverInfo) ==
    IF ~hasOwnProperty(serverInfo, "modulus")
    THEN Thrown(this, "serverInfo needs modulus", {})
    ELSE IF ~hasOwnProperty(serverInfo, "generator")
    THEN Thrown(this, "serverInfo needs generator", {})
    ELSE IF ~hasOwnProperty(serverInfo, "salt")
    THEN Thrown(this, "serverInfo needs salt", {})
    ELSE IF ~hasOwnProperty(serverInfo, "publicKey")
    THEN Thrown(this, "serverInfo needs publicKey", {})
    ELSE Returned([this EXCEPT !.serverInfo = Some(serverInfo)], <<>>, {})

\* the guards of generatePublicKeyAndProof, each after the slip it is checked
\* against: a test of the password for truth, a comparison of B itself with
\* zero, a multiplier that is never rejected
NotConfigured_PasswordTruthy(this) ==
    \/ ~IsSome(this.serverInfo)
    \/ ~IsSome(this.identity)
    \/ Get(this.identity).password = <<>>

NotConfigured(this) == ~IsSome(this.serverInfo) \/ ~IsSome(this.identity)

DegeneratePublicKey_ZeroOnly(B, N) == B = 0

DegeneratePublicKey(B, N) == modAdd1(B, N) = 0

ClientZeroU(u) == u = 0

ClientZeroK_Unchecked(k) == FALSE

ClientZeroK(k) == k = 0

\* the last statements of generatePublicKeyAndProof, keeping a key the client
\* already holds
generatePublicKeyAndProof_M_KeepingKey(this, A, K, M) ==
    IF M.err # ""
    THEN Thrown(this, M.err, {"a", "A", "u", "k", "x", "S", "K"})
    ELSE Returned([this EXCEPT !.sharedKey = IF IsSome(this.sharedKey)
                                             THEN this.sharedKey
                                             ELSE Some(K)],
                  [clientPublicKey |-> Some(A), clientProof |-> Some(M.val)],
                  {"a", "A", "u", "k", "x", "S", "K", "M"})

\* generatePublicKeyAndProof, from its last statement back to its first: each
\* operator is the rest of the call once the value its name ends in has been
\* computed.  si is this.serverInfo and id is this.identity.
generatePublicKeyAndProof_M(this, A, K, M) ==
    IF M.err # ""
    THEN Thrown(this, M.err, {"a", "A", "u", "k", "x", "S", "K"})
    ELSE Returned([this EXCEPT !.sharedKey = Some(K)],
                  [clientPublicKey |-> Some(A), clientProof |-> Some(M.val)],
                  {"a", "A", "u", "k", "x", "S", "K", "M"})

generatePublicKeyAndProof_K(this, si, id, A, K) ==
    IF K.err # "" THEN Thrown(this, K.err, {"a", "A", "u", "k", "x", "S"})
    ELSE generatePublicKeyAndProof_M(this, A, K.val,
            SRPOps_Mc(si.modulus, si.generator, Some(id.username), si.salt,
                      Some(A), si.publicKey, Some(K.val)))

generatePublicKeyAndProof_S(this, si, id, A, S) ==
    IF S.err # "" THEN Thrown(this, S.err, {"a", "A", "u", "k", "x"})
    ELSE generatePublicKeyAndProof_K(this, si, id, A, SRPOps_K(Some(S.val)))

generatePublicKeyAndProof_x(this, si, id, a, A, u, k, x) ==
    IF x.err # "" THEN Thrown(this, x.err, {"a", "A", "u", "k"})
    ELSE generatePublicKeyAndProof_S(this, si, id, A,
            SRPOps_Sc(si.modulus, si.generator, si.publicKey, Some(k),
                      Some(x.val), Some(a), Some(u)))

generatePublicKeyAndProof_k(this, si, id, a, A, u, k) ==
    IF k.err # "" THEN Thrown(this, k.err, {"a", "A", "u"})
    ELSE IF ClientZeroK(k.val)
    THEN Thrown(this, "precondition fail", {"a", "A", "u", "k"})
    ELSE generatePublicKeyAndProof_x(this, si, id, a, A, u, k.val,
            SRPOps_x(si.salt, Some(id.username), Some(id.password)))

generatePublicKeyAndProof_u(this, si, id, a, A, u) ==
    IF u.err # "" THEN Thrown(this, u.err, {"a", "A"})
    ELSE IF ClientZeroU(u.val)
    THEN Thrown(this, "precondition fail", {"a", "A", "u"})
    ELSE generatePublicKeyAndProof_k(this, si, id, a, A, u.val,
            SRPOps_k(si.modulus, si.generator))

generatePublicKeyAndProof_A(this, si, id, a, A) ==
    IF A.err # "" THEN Thrown(this, A.err, {"a"})
    ELSE generatePublicKeyAndProof_u(this, si, id, a, A.val,
            SRPOps_u(Some(A.val), si.publicKey))

generatePublicKeyAndProof_B(this, si, id, rnd) ==
    IF DegeneratePublicKey(Get(si.publicKey), Get(si.modulus))
    THEN Thrown(this, "precondition fail", {})
    ELSE generatePublicKeyAndProof_A(this, si, id, rnd,
            SRPOps_A(si.modulus, si.generator, Some(rnd)))

Client_generatePublicKeyAndProof(this, rnd) ==
    IF NotConfigured(this)
    THEN Thrown(this, "Server Info and client identity Must Be Set First", {})
    ELSE generatePublicKeyAndProof_B(this, Get(this.serverInfo),
                                     Get(this.identity), rnd)

(***************************************************************************)
(* The state: one Server and one Client object, the Challenge and the      *)
(* Response last returned to the transport, and three observations of the  *)
(* calls made so far: the last completed call (its name, its argument,     *)
(* what it threw, what it computed), how far the calls follow the order of *)
(* a full handshake, and the session states of sections 4.3 and 4.4 of the *)
(* specification as the history of successful calls defines them.  The     *)
(* functions that belong to no object (SRPOps, BigInt, Utils) are observed *)
(* in fn: the function applied, its arguments and what it returned.  The   *)
(* asynchronous calls in progress are in tasks: for each, the call, the    *)
(* await it is suspended at and its local values.  srpClient, loggedInUser *)
(* and cachedPermissions are the module state of index.ts, and http is the *)
(* browser's session with the service: the session cookie and the user the *)
(* service holds the session for.                                          *)
(***************************************************************************)
VARIABLES server, client, challenge, response, last, hs, ghost, calls, fn, tasks, srpClient, loggedInUser, cachedPermissions, http

vars ==
    <<server, client, challenge, response, last, hs, ghost, calls, fn,
      tasks, srpClient, loggedInUser, cachedPermissions, http>>

\* index.ts: the module's state and the browser's session with the service
page == <<srpClient, loggedInUser, cachedPermissions, http>>

\* the asynchronous calls in progress, MaxTasks at a time
MaxTasks == 2
Idle == [pc |-> "idle"]

\* no function has been applied
NoFunction == [op |-> "none"]

\* what the transport may hand to the client instead of the server's
\* challenge: a degenerate public key (0, N), a public key that does not fit
\* the pad width, a group whose multiplier hashes to zero, a missing field
ForgedBase ==
    [modulus |-> Some(23), generator |-> Some(5), salt |-> Some(<<82, 238>>),
     publicKey |-> Some(12), loginToken |-> Some(LoginToken)]

ForgedChallenges ==
    {[ForgedBase EXCEPT !.publicKey = Some(B)] : B \in {0, 23, 10, 300}}
    \cup {[ForgedBase EXCEPT !.modulus = Some(11), !.generator = Some(7),
                             !.publicKey = Some(3)]}
    \cup {[ForgedBase EXCEPT ![f] = None] :
            f \in {"modulus", "generator", "salt", "publicKey", "loginToken"}}

WrongProof == <<0, 0, 0, 1>>

\* what the transport may hand to the server instead of the client's response
ForgedResponses ==
    {[clientPublicKey |-> Some(A), clientProof |-> Some(WrongProof)] :
        A \in {0, 1, 23, 300}}

Identities == [username : {UserA, UserB}, password : Passwords]

Observed(op, arg, r) ==
    [op |-> op, arg |-> arg, err |-> r.err, ret |-> r.ret,
     computed |-> r.computed]

\* the objects right after construction
Constructed ==
    /\ server = NewServer
    /\ client = NewClient
    /\ challenge = None
    /\ response = None
    /\ last = [op |-> "new", arg |-> <<>>, err |-> "", ret |-> None,
               computed |-> {}]
    /\ hs = 0
    /\ ghost = [phase |-> "Unstarted", loginUser |-> None,
                identitySet |-> FALSE, serverInfoSet |-> FALSE,
                draws |-> <<>>]
    /\ calls = 0
    /\ tasks = [i \in 1..MaxTasks |-> Idle]
    /\ srpClient = NewClient
    /\ loggedInUser = <<>>
    /\ cachedPermissions = None
    /\ http = [cookie |-> FALSE, session |-> None]

Init == Constructed /\ fn = NoFunction

\* the next stage of the handshake order when this call is its next step
Stage(n, inOrder) == IF hs = n - 1 /\ inOrder THEN n ELSE 0

StartLogin_done(username, r) ==
    /\ server' = r.obj
    /\ challenge' = IF r.err = "" THEN r.ret ELSE challenge
    /\ last' = Observed("startLogin", username, r)
    /\ hs' = IF r.err = "" THEN 1 ELSE 0
    /\ ghost' = IF r.err = ""
                THEN [ghost EXCEPT !.phase = "Started",
                                   !.loginUser = Some(username)]
                ELSE ghost
    /\ UNCHANGED <<client, response>>

StartLogin ==
    \E username \in Usernames, b \in 0..MaxRand :
        StartLogin_done(username, Server_startLogin(server, username, b))

\* the ephemeral keys of the last two proofs generated for the identity and
\* the challenge the client holds: kept while these stay the same, extended
\* by the a of a proof
SameSession(that) ==
    IF that.identity = client.identity /\ that.serverInfo = client.serverInfo
    THEN ghost.draws ELSE <<>>

Drawn(a) ==
    IF Len(ghost.draws) = 2 THEN <<ghost.draws[2], a>>
    ELSE Append(ghost.draws, a)

SetIdentity_done(identity, r) ==
    /\ client' = r.obj
    /\ last' = Observed("setIdentity", identity, r)
    /\ hs' = Stage(2, ghost.loginUser = Some(identity.username))
    /\ ghost' = [ghost EXCEPT !.identitySet = TRUE,
                              !.draws = SameSession(r.obj)]
    /\ UNCHANGED <<server, challenge, response>>

SetIdentity ==
    \E identity \in Identities :
        SetIdentity_done(identity, Client_setIdentity(client, identity))

SetServerInfo_done(serverInfo, r) ==
    /\ client' = r.obj
    /\ last' = Observed("setServerInfo", serverInfo, r)
    /\ hs' = Stage(3, r.err = "" /\ challenge = Some(serverInfo))
    /\ ghost' = IF r.err = ""
                THEN [ghost EXCEPT !.serverInfoSet = TRUE,
                                   !.draws = SameSession(r.obj)]
                ELSE ghost
    /\ UNCHANGED <<server, challenge, response>>

\* the challenge the transport delivers: the server's, or a forged one
Delivered(sent, forged) == forged \cup {Get(m) : m \in {sent} \ {None}}

SetServerInfo ==
    \E serverInfo \in Delivered(challenge, ForgedChallenges) :
        SetServerInfo_done(serverInfo,
                           Client_setServerInfo(client, serverInfo))

GeneratePublicKeyAndProof_done(a, r) ==
    /\ client' = r.obj
    /\ response' = IF r.err = "" THEN r.ret ELSE response
    /\ last' = Observed("generatePublicKeyAndProof", a, r)
    /\ hs' = Stage(4, r.err = "")
    /\ ghost' = IF r.err = "" THEN [ghost EXCEPT !.draws = Drawn(a)]
                ELSE ghost
    /\ UNCHANGED <<server, challenge>>

GeneratePublicKeyAndProof ==
    \E a \in 0..MaxRand :
        GeneratePublicKeyAndProof_done(
            a, Client_generatePublicKeyAndProof(client, a))

FinishLogin_done(clientParams, r) ==
    /\ server' = r.obj
    /\ last' = Observed("finishLogin", clientParams, r)
    /\ hs' = Stage(5, r.err = "" /\ response = Some(clientParams))
    /\ ghost' = IF r.err = "" THEN [ghost EXCEPT !.phase = "Finished"]
                ELSE ghost
    /\ UNCHANGED <<client, challenge, response>>

\* the client's response with its proof replaced
Tampered(sent) ==
    {[Get(m) EXCEPT !.clientProof = Some(WrongProof)] : m \in {sent} \ {None}}

FinishLogin ==
    \E clientParams \in Delivered(response,
                                  ForgedResponses \cup Tampered(response)) :
        FinishLogin_done(clientParams,
                         Server_finishLogin(server, clientParams))

Call(op) ==
    /\ calls < MaxCalls
    /\ calls' = calls + 1
    /\ op
    /\ UNCHANGED <<fn, tasks, page>>

Next ==
    \/ Call(StartLogin)
    \/ Call(SetIdentity)
    \/ Call(SetServerInfo)
    \/ Call(GeneratePublicKeyAndProof)
    \/ Call(FinishLogin)

Spec == Init /\ [][Next]_vars

\* the objects are left alone while a function that belongs to none is applied
objects ==
    <<server, client, challenge, response, last, hs, ghost, calls, tasks,
      page>>

(***************************************************************************)
(* SRPOps.Sc and SRPOps.Ss applied to consistent inputs: N, g, x, a, b, u  *)
(* and k are drawn from bounded sets, v, A and B are computed from them as *)
(* SRPOps.v, SRPOps.A and SRPOps.B compute them, with the k given or with  *)
(* the k of SRPOps.k.                                                      *)
(***************************************************************************)
AlgebraInputs ==
    [N : 1..MaxModulus, g : 0..MaxModulus, x : 0..MaxExponent,
     a : 0..MaxExponent, b : 0..MaxExponent, u : 0..MaxExponent,
     k : 0..MaxModulus]

\* the sum SRPOps.B returns, for a multiplier k
B_sum(N, g, v, b, k) ==
    LET mod_pow == modPow(g, b, N)
        kv == k * v
    IN modAdd2(kv, mod_pow, N)

\* the verifier and the client public key of the inputs
AlgebraV(in) == SRPOps_v(Some(in.N), Some(in.g), Some(in.x)).val

AlgebraA(in) == SRPOps_A(Some(in.N), Some(in.g), Some(in.a)).val

\* both secrets for the inputs in, the multiplier k and the B made with it
Secrets(in, k, B) ==
    [op |-> "S", in |-> [in EXCEPT !.k = k],
     v |-> AlgebraV(in), A |-> AlgebraA(in), B |-> B,
     Sc |-> SRPOps_Sc(Some(in.N), Some(in.g), Some(B), Some(k),
                      Some(in.x), Some(in.a), Some(in.u)),
     Ss |-> SRPOps_Ss(Some(in.N), Some(AlgebraA(in)), Some(AlgebraV(in)),
                      Some(in.u), Some(in.b))]

InitAlgebra ==
    /\ Constructed
    /\ fn \in {[op |-> "input", in |-> in] : in \in AlgebraInputs}

\* Sc and Ss for the multiplier given
SecretsOfGivenK ==
    /\ fn.op = "input"
    /\ fn' = Secrets(fn.in, fn.in.k,
                     B_sum(fn.in.N, fn.in.g, AlgebraV(fn.in), fn.in.b,
                           fn.in.k))
    /\ UNCHANGED objects

\* Sc and Ss for the multiplier SRPOps.k derives from N and g, and the B
\* SRPOps.B returns
SecretsOfHashedK ==
    /\ fn.op = "input"
    /\ fn.in.k = 0
    /\ SRPOps_k(Some(fn.in.N), Some(fn.in.g)).err = ""
    /\ fn' = Secrets(fn.in, SRPOps_k(Some(fn.in.N), Some(fn.in.g)).val,
                     SRPOps_B(Some(fn.in.N), Some(fn.in.g),
                              Some(AlgebraV(fn.in)), Some(fn.in.b)).val)
    /\ UNCHANGED objects

NextAlgebra == SecretsOfGivenK \/ SecretsOfHashedK

SpecAlgebra == InitAlgebra /\ [][NextAlgebra]_vars

(***************************************************************************)
(* The error kinds of section 7 of the specification, as the strings the   *)
(* code throws.                                                            *)
(***************************************************************************)
PreconditionFailed == "Server Info and client identity Must Be Set First"
EncodingError == "attmpted to truncate"
SecurityViolation == "precondition fail"
MalformedChallenge ==
    {"serverInfo needs modulus", "serverInfo needs generator",
     "serverInfo needs salt", "serverInfo needs publicKey"}

(***************************************************************************)
(* Cross-agreement                                                         *)
(***************************************************************************)
\* the record of the login in progress holds the verifier of the identity
\* the client has: v = g^x mod N for the x of the record's salt, the client's
\* username and the client's password
VerifierOfIdentity ==
    /\ IsSome(ghost.loginUser)
    /\ IsSome(client.identity)
    /\ Get(client.identity).username = Get(ghost.loginUser)
    /\ LET entry == Get(lookupFunc(Get(ghost.loginUser)))
           x == SRPOps_x(Some(entry.s), Some(Get(client.identity).username),
                         Some(Get(client.identity).password))
       IN bigIntFromByteArray(entry.v).val =
              SRPOps_v(Some(bigIntFromByteArray(entry.n).val),
                       Some(bigIntFromByteArray(entry.g).val),
                       Some(x.val)).val

\* startLogin, setIdentity, setServerInfo(challenge),
\* generatePublicKeyAndProof and finishLogin(response) have completed, in
\* that order and with nothing in between
HandshakeDone == hs = 5

\* C1: after a full handshake in order, for a record whose verifier is
\* v = g^x of the client's username and password, the client's shared key
\* equals the server's shared key.
C1_CrossAgreement ==
    (HandshakeDone /\ VerifierOfIdentity) =>
        (IsSome(client.sharedKey) /\ client.sharedKey = server.sharedKey)

\* a full handshake with the right password and nonzero ephemeral keys
C1_Witness ==
    /\ HandshakeDone
    /\ VerifierOfIdentity
    /\ Get(server.serverPrivateKey) > 0
    /\ Get(Get(response).clientPublicKey) > 1
    /\ client.sharedKey = server.sharedKey

(***************************************************************************)
(* Server.finishLogin and the client's proof                               *)
(***************************************************************************)
\* the client proof over the server's own values: N, g, the username of the
\* login, the salt, the A received, B and the K the server holds
ServerSideClientProof(A) ==
    SRPOps_Mc(server.modulus, server.generator, ghost.loginUser, server.salt,
              A, server.serverPublicKey, server.sharedKey)

\* C2: finishLogin returns a server proof and stores a shared key only when
\* the clientProof it received equals the client proof computed from the
\* server's own K; for any other clientProof it fails.
C2_FinishLoginVerifiesProof ==
    (last.op = "finishLogin" /\ last.err = "") =>
        /\ ServerSideClientProof(last.arg.clientPublicKey).err = ""
        /\ last.arg.clientProof =
              Some(ServerSideClientProof(last.arg.clientPublicKey).val)

\* C4: a finishLogin that derived and stored a shared key did so from a
\* client public key A with A mod N # 0; given A mod N = 0 it aborts.
C4_ServerRejectsZeroA ==
    (last.op = "finishLogin" /\ last.err = "") =>
        Get(last.arg.clientPublicKey) % Get(server.modulus) # 0

(***************************************************************************)
(* The zero checks                                                         *)
(***************************************************************************)
ClientConfigured == IsSome(client.identity) /\ IsSome(client.serverInfo)

\* the u and the k a generatePublicKeyAndProof call on the present client
\* computes when its ephemeral key is a
ClientU(a) ==
    SRPOps_u(Some(SRPOps_A(Get(client.serverInfo).modulus,
                           Get(client.serverInfo).generator, Some(a)).val),
             Get(client.serverInfo).publicKey)

ClientK ==
    SRPOps_k(Get(client.serverInfo).modulus, Get(client.serverInfo).generator)

SecretValues == {"S", "K", "M"}

\* C5: generatePublicKeyAndProof on a challenge with B mod N = 0 throws the
\* security violation before it computes anything: no ephemeral key, no
\* shared secret, sharedKey as before, nothing returned.
C5_ZeroRejectionOfB ==
    [][(/\ last'.op = "generatePublicKeyAndProof"
        /\ ClientConfigured
        /\ Get(Get(client.serverInfo).publicKey)
              % Get(Get(client.serverInfo).modulus) = 0)
       => (/\ last'.err = SecurityViolation
           /\ last'.computed = {}
           /\ client'.sharedKey = client.sharedKey
           /\ response' = response)]_vars

\* the call was rejected for B = N, a nonzero B that is zero mod N
C5_Witness ==
    /\ last.op = "generatePublicKeyAndProof"
    /\ last.err = SecurityViolation
    /\ last.computed = {}
    /\ Get(Get(client.serverInfo).publicKey)
          = Get(Get(client.serverInfo).modulus)

\* C6: generatePublicKeyAndProof throws the security violation whenever the
\* u it computes from (A, B) is zero or the k it computes from (N, g) is
\* zero; S, K and M1 are then not computed and sharedKey is as before.
C6_ZeroRejectionOfUAndK ==
    [][(/\ last'.op = "generatePublicKeyAndProof"
        /\ ClientConfigured
        /\ ClientU(last'.arg).err = ""
        /\ \/ ClientU(last'.arg).val = 0
           \/ ClientK.err = "" /\ ClientK.val = 0)
       => (/\ last'.err = SecurityViolation
           /\ last'.computed \cap SecretValues = {}
           /\ client'.sharedKey = client.sharedKey
           /\ response' = response)]_vars

\* the call computed a nonzero u, then a zero k, and was rejected there
C6_Witness ==
    /\ last.op = "generatePublicKeyAndProof"
    /\ last.err = SecurityViolation
    /\ last.computed = {"a", "A", "u", "k"}
    /\ ClientU(last.arg).val # 0
    /\ ClientK.val = 0

\* C7: finishLogin throws the security violation when the u of response.A
\* and the stored B is zero; S, K and M2 are then not computed and
\* sharedKey keeps its value.
C7_ServerZeroRejectionOfU ==
    [][(/\ last'.op = "finishLogin"
        /\ SRPOps_u(last'.arg.clientPublicKey, server.serverPublicKey).err = ""
        /\ SRPOps_u(last'.arg.clientPublicKey, server.serverPublicKey).val = 0)
       => (/\ last'.err = SecurityViolation
           /\ last'.computed \cap SecretValues = {}
           /\ server'.sharedKey = server.sharedKey)]_vars

\* a finishLogin was rejected for u = 0 on a server that already held a key
C7_Witness ==
    /\ last.op = "finishLogin"
    /\ last.err = SecurityViolation
    /\ last.computed = {"u"}
    /\ SRPOps_u(last.arg.clientPublicKey, server.serverPublicKey).val = 0
    /\ IsSome(server.sharedKey)

(***************************************************************************)
(* The order of calls                                                      *)
(***************************************************************************)
\* C8: finishLogin succeeds only in state Started; before any startLogin has
\* completed, or after a finishLogin has completed for the challenge, it
\* fails, returns no proof and does not change sharedKey.  (Any thrown
\* string is taken for the failure here.)
C8_FinishLoginRequiresStarted ==
    [][(last'.op = "finishLogin" /\ ghost.phase # "Started")
       => (last'.err # "" /\ server'.sharedKey = server.sharedKey)]_vars

\* C9: generatePublicKeyAndProof fails with the precondition error and leaves
\* sharedKey unset unless setIdentity and setServerInfo have both succeeded;
\* once both have, in either order and whatever the password, it does not
\* fail with the precondition error.
C9_GenerateRequiresIdentityAndServerInfo ==
    [][last'.op = "generatePublicKeyAndProof"
       => IF ghost.identitySet /\ ghost.serverInfoSet
          THEN last'.err # PreconditionFailed
          ELSE /\ last'.err = PreconditionFailed
               /\ client'.sharedKey = None
               /\ response' = response]_vars

\* a proof was generated for an identity with the empty password
C9_Witness ==
    /\ last.op = "generatePublicKeyAndProof"
    /\ last.err = ""
    /\ Get(client.identity).password = PassEmpty
    /\ IsSome(client.sharedKey)

RequiredFields == {"modulus", "generator", "salt", "publicKey"}

\* C10: setServerInfo given a challenge without modulus, generator, salt or
\* server public key fails with the malformed-challenge error and leaves the
\* client as it was; given a challenge with all four it stores it.
C10_SetServerInfoChecksFields ==
    [][last'.op = "setServerInfo"
       => IF \E f \in RequiredFields : ~IsSome(last'.arg[f])
          THEN last'.err \in MalformedChallenge /\ client' = client
          ELSE last'.err = "" /\ client'.serverInfo = Some(last'.arg)]_vars

\* a challenge without salt was refused by a client that held a challenge
C10_Witness ==
    /\ last.op = "setServerInfo"
    /\ last.err = "serverInfo needs salt"
    /\ ~IsSome(last.arg.salt)
    /\ IsSome(client.serverInfo)

(***************************************************************************)
(* What crosses the session boundary                                       *)
(***************************************************************************)
\* the three values the calls return, made of the public values alone
PublicChallenge ==
    [modulus |-> server.modulus, generator |-> server.generator,
     salt |-> server.salt, publicKey |-> server.serverPublicKey,
     loginToken |-> Some(LoginToken)]

PublicResponse(si, id, a) ==
    [clientPublicKey |-> SRPOps_A(si.modulus, si.generator, Some(a)).val,
     clientProof |->
        SRPOps_Mc(si.modulus, si.generator, Some(id.username), si.salt,
                  Some(SRPOps_A(si.modulus, si.generator, Some(a)).val),
                  si.publicKey, client.sharedKey).val]

PublicServerProof(clientParams) ==
    [serverProof |-> SRPOps_Ms(clientParams.clientPublicKey,
                               clientParams.clientProof,
                               server.sharedKey).val]

\* C15: the Challenge startLogin returns is N, g, s, B and the login token,
\* the Response generatePublicKeyAndProof returns is A and M1, the value
\* finishLogin returns is M2, and nothing else: no field of them is a, b, v,
\* x, the password or K.
C15_NoSecretCrossesBoundary ==
    /\ (last.op = "startLogin" /\ last.err = "") =>
          /\ last.ret = Some(PublicChallenge)
          /\ challenge = last.ret
    /\ (last.op = "generatePublicKeyAndProof" /\ last.err = "") =>
          /\ Get(last.ret).clientPublicKey
                = Some(PublicResponse(Get(client.serverInfo),
                                      Get(client.identity),
                                      last.arg).clientPublicKey)
          /\ Get(last.ret).clientProof
                = Some(PublicResponse(Get(client.serverInfo),
                                      Get(client.identity),
                                      last.arg).clientProof)
          /\ DOMAIN Get(last.ret) = {"clientPublicKey", "clientProof"}
          /\ response = last.ret
    /\ (last.op = "finishLogin" /\ last.err = "") =>
          last.ret = Some(PublicServerProof(last.arg))

\* a full handshake has returned its three values, with private keys that
\* differ from the public keys they belong to
C15_Witness ==
    /\ HandshakeDone
    /\ last.op = "finishLogin" /\ last.err = ""
    /\ server.serverPrivateKey # server.serverPublicKey
    /\ Get(server.serverPrivateKey) > 0
    /\ IsSome(challenge) /\ IsSome(response)

\* C16: a call on the Client or the Server that fails (startLogin on an
\* unknown username, finishLogin or generatePublicKeyAndProof stopped by a
\* check or an encoding error, setServerInfo on a malformed challenge) leaves
\* every field of both objects as it was before the call.
C16_NoPartialSuccess ==
    [][last'.err # "" => (server' = server /\ client' = client)]_vars

\* a finishLogin failed on the encoding of A on a server that held the
\* fields of a login and the key of an earlier finishLogin
C16_Witness ==
    /\ last.op = "finishLogin"
    /\ last.err = EncodingError
    /\ IsSome(server.serverPrivateKey)
    /\ IsSome(server.sharedKey)

(***************************************************************************)
(* A second proof on the same client                                       *)
(***************************************************************************)
\* the K generatePublicKeyAndProof derives for the ephemeral key a
KeyOfS(S) == SRPOps_K(Some(S)).val

KeyOfX(si, a, u, k, x) ==
    KeyOfS(SRPOps_Sc(si.modulus, si.generator, si.publicKey, Some(k),
                     Some(x), Some(a), Some(u)).val)

KeyOfA(si, id, a, A) ==
    KeyOfX(si, a, SRPOps_u(Some(A), si.publicKey).val,
           SRPOps_k(si.modulus, si.generator).val,
           SRPOps_x(si.salt, Some(id.username), Some(id.password)).val)

KeyOfDraw(si, id, a) ==
    KeyOfA(si, id, a, SRPOps_A(si.modulus, si.generator, Some(a)).val)

\* C17: a generatePublicKeyAndProof that follows another on the same client,
\* identity and challenge works from the a it draws itself: its A is g^a
\* and its K the key of that a, not those of the first call, and when the a
\* drawn differs from the first the {A, M1} returned differs from the first.
C17_FreshEphemeralPerCall ==
    [][(/\ last'.op = "generatePublicKeyAndProof" /\ last'.err = ""
        /\ ghost.draws # <<>>)
       => (/\ ghost'.draws[Len(ghost'.draws)] = last'.arg
           /\ Get(response').clientPublicKey
                 = Some(SRPOps_A(Get(client.serverInfo).modulus,
                                 Get(client.serverInfo).generator,
                                 Some(last'.arg)).val)
           /\ client'.sharedKey
                 = Some(KeyOfDraw(Get(client.serverInfo),
                                  Get(client.identity), last'.arg))
           /\ last'.arg # ghost.draws[Len(ghost.draws)]
                 => /\ response' # response
                    /\ Get(response').clientPublicKey
                          # Get(response).clientPublicKey)]_vars

\* two proofs were generated in a row from two different a, and the client
\* holds another key than the key of the first a
C17_Witness ==
    /\ last.op = "generatePublicKeyAndProof" /\ last.err = ""
    /\ Len(ghost.draws) = 2
    /\ ghost.draws[1] # ghost.draws[2]
    /\ client.sharedKey
          # Some(KeyOfDraw(Get(client.serverInfo), Get(client.identity),
                           ghost.draws[1]))

(***************************************************************************)
(* SRPOps applied to arguments of which some are undefined.  Every         *)
(* operation is given the arguments of one handshake (N = 23, g = 5, the   *)
(* user "a") with any of them left out.  SRPOps.B without b is not applied: *)
(* what modPow makes of an exponent that is no bigint is decided inside    *)
(* bigint-mod-arith.                                                       *)
(***************************************************************************)
SampleArguments ==
    [A |-> <<23, 5, 1>>,
     B |-> <<23, 5, 20, 1>>,
     u |-> <<5, 16>>,
     k |-> <<23, 5>>,
     x |-> <<(<<82, 238>>), UserA, PassP>>,
     Sc |-> <<23, 5, 16, 4, 3, 1, 2>>,
     Ss |-> <<23, 5, 20, 2, 1>>,
     K |-> <<7>>,
     Mc |-> <<23, 5, UserA, (<<82, 238>>), 5, 16, (<<1, 2>>)>>,
     Ms |-> <<5, WrongProof, (<<1, 2>>)>>,
     v |-> <<23, 5, 3>>]

\* the argument lists of f with the arguments at the positions missing
\* undefined
ArgumentLists(f) ==
    {[i \in 1..Len(SampleArguments[f]) |->
        IF i \in missing THEN None ELSE Some(SampleArguments[f][i])] :
     missing \in {m \in SUBSET (1..Len(SampleArguments[f])) :
                     ~(f = "B" /\ 4 \in m)}}

ApplySRPOps(f, a) ==
    CASE f = "A" -> SRPOps_A(a[1], a[2], a[3])
      [] f = "B" -> SRPOps_B(a[1], a[2], a[3], a[4])
      [] f = "u" -> SRPOps_u(a[1], a[2])
      [] f = "k" -> SRPOps_k(a[1], a[2])
      [] f = "x" -> SRPOps_x(a[1], a[2], a[3])
      [] f = "Sc" -> SRPOps_Sc(a[1], a[2], a[3], a[4], a[5], a[6], a[7])
      [] f = "Ss" -> SRPOps_Ss(a[1], a[2], a[3], a[4], a[5])
      [] f = "K" -> SRPOps_K(a[1])
      [] f = "Mc" -> SRPOps_Mc(a[1], a[2], a[3], a[4], a[5], a[6], a[7])
      [] f = "Ms" -> SRPOps_Ms(a[1], a[2], a[3])
      [] f = "v" -> SRPOps_v(a[1], a[2], a[3])

InitArguments ==
    /\ Constructed
    /\ \E f \in DOMAIN SampleArguments :
          \E a \in ArgumentLists(f) :
             fn = [op |-> "input", f |-> f, args |-> a]

ApplyOperation ==
    /\ fn.op = "input"
    /\ fn' = [op |-> "SRPOps", f |-> fn.f, args |-> fn.args,
              out |-> ApplySRPOps(fn.f, fn.args)]
    /\ UNCHANGED objects

SpecArguments == InitArguments /\ [][ApplyOperation]_vars

\* C18: every SRPOps operation called with an argument that is not of the
\* kind required (no bigint, no byte array, no username or password) fails;
\* none puts a default in its place and returns a result.  (Any thrown value
\* is taken for the failure here.)
C18_WrongKindRejected ==
    (fn.op = "SRPOps" /\ \E i \in 1..Len(fn.args) : fn.args[i] = None) =>
        fn.out.err # ""

(***************************************************************************)
(* lib/Utils.ts: xorHashStrings applied to two hash strings, then to its   *)
(* result and the second string.  The strings are: all strings of up to    *)
(* MaxLen digits over three digits, of equal length or not; single chunks  *)
(* in which every pair of digits meets at some position; strings of up to  *)
(* MaxChunks chunks.                                                       *)
(***************************************************************************)
XorDigits == {0, 10, 15}

RECURSIVE StringsOver(_, _)
StringsOver(S, n) ==
    IF n = 0 THEN {<<>>}
    ELSE StringsOver(S, n - 1)
         \cup {Append(t, d) : t \in {u \in StringsOver(S, n - 1) :
                                        Len(u) = n - 1},
                              d \in S}

SampleChunks == {<<0, 0, 0, 0>>, <<0, 0, 0, 15>>, <<15, 0, 10, 0>>,
              <<15, 15, 15, 15>>}

RECURSIVE Flatten(_)
Flatten(chunks) ==
    IF chunks = <<>> THEN <<>> ELSE Head(chunks) \o Flatten(Tail(chunks))

ChunkStrings == {Flatten(c) : c \in StringsOver(SampleChunks, MaxChunks)}

XorInputs ==
    (StringsOver(XorDigits, MaxLen) \X StringsOver(XorDigits, MaxLen))
    \cup {<< <<p, q, 15 - p, 0>>, <<q, p, q, p>> >> : p \in 0..15, q \in 0..15}
    \cup (ChunkStrings \X ChunkStrings)

InitXor ==
    /\ Constructed
    /\ fn \in {[op |-> "input", a |-> in[1], b |-> in[2]] : in \in XorInputs}

Xor ==
    /\ fn.op = "input"
    /\ fn' = [op |-> "xorHashStrings", a |-> fn.a, b |-> fn.b,
              out |-> xorHashStrings(fn.a, fn.b)]
    /\ UNCHANGED objects

XorBack ==
    /\ fn.op = "xorHashStrings"
    /\ fn.out.err = ""
    /\ fn' = [op |-> "xorHashStrings twice", a |-> fn.a, b |-> fn.b,
              out |-> xorHashStrings(fn.out.val, fn.b)]
    /\ UNCHANGED objects

NextXor == Xor \/ XorBack

SpecXor == InitXor /\ [][NextXor]_vars

\* C19: for hex strings a and b of equal length, a multiple of 4,
\* xorHashStrings(xorHashStrings(a, b), b) is a.
C19_XorIsItsOwnInverse ==
    (/\ fn.op = "xorHashStrings twice"
     /\ Len(fn.a) = Len(fn.b)
     /\ Len(fn.a) % 4 = 0)
    => (fn.out.err = "" /\ fn.out.val = fn.a)

\* two chunks, of which the first xors to a chunk with leading zeros
C19_Witness ==
    /\ fn.op = "xorHashStrings twice"
    /\ fn.a = <<15, 0, 10, 0, 0, 0, 0, 15>>
    /\ fn.b = <<15, 0, 10, 0, 15, 15, 15, 15>>
    /\ fn.out.val = fn.a

\* the xor of two hex digits, bit by bit
DigitXor(x, y) ==
    ((x + y) % 2)
    + 2 * (((x \div 2) + (y \div 2)) % 2)
    + 4 * (((x \div 4) + (y \div 4)) % 2)
    + 8 * (((x \div 8) + (y \div 8)) % 2)

\* C20: for hex strings of equal length, a multiple of 4, xorHashStrings
\* returns a string of that length whose digit at every position is the
\* xor of the digits of a and b there, the leading zeros of a chunk kept;
\* for strings of different length it throws and returns nothing.
C20_XorDigitwise ==
    fn.op = "xorHashStrings" =>
        IF Len(fn.a) # Len(fn.b)
        THEN fn.out.err # "" /\ fn.out.val = <<>>
        ELSE Len(fn.a) % 4 = 0 =>
                /\ fn.out.err = ""
                /\ Len(fn.out.val) = Len(fn.a)
                /\ \A i \in 1..Len(fn.a) :
                      fn.out.val[i] = DigitXor(fn.a[i], fn.b[i])

\* a chunk whose xor has two leading zeros: 0x33c0 xor 0x3333 = 0x00f3
C20_Witness ==
    /\ fn.op = "xorHashStrings"
    /\ fn.a = <<3, 3, 12, 0>>
    /\ fn.b = <<3, 3, 3, 3>>
    /\ fn.out.val = <<0, 0, 15, 3>>

(***************************************************************************)
(* lib/BigInt.ts: bigIntegerToBytes applied to an unsigned integer and a   *)
(* width, then bigIntFromByteArray applied to the bytes it returned.  The  *)
(* integers are those up to MaxValue and those next to a power of 256.     *)
(***************************************************************************)
CodecValues ==
    (0..MaxValue)
    \cup UNION {{256^w - 1, 256^w, 256^w + 1} : w \in 1..MaxWidth}

InitCodec ==
    /\ Constructed
    /\ fn \in {[op |-> "input", x |-> x, w |-> w] :
                   x \in CodecValues, w \in 0..MaxWidth}

Encode ==
    /\ fn.op = "input"
    /\ fn' = [op |-> "bigIntegerToBytes", x |-> fn.x, w |-> fn.w,
              out |-> bigIntegerToBytes(fn.x, fn.w)]
    /\ UNCHANGED objects

Decode ==
    /\ fn.op = "bigIntegerToBytes"
    /\ fn.out.err = ""
    /\ fn' = [op |-> "bigIntFromByteArray", x |-> fn.x, w |-> fn.w,
              bytes |-> fn.out.val, out |-> bigIntFromByteArray(fn.out.val)]
    /\ UNCHANGED objects

NextCodec == Encode \/ Decode

SpecCodec == InitCodec /\ [][NextCodec]_vars

\* C12: for every unsigned x and width w with x < 256^w, bigIntFromByteArray
\* of the bytes bigIntegerToBytes(x, w) returned is x.
C12_EncodingRoundTrip ==
    (fn.op = "bigIntFromByteArray" /\ fn.x < 256^fn.w) =>
        (fn.out.err = "" /\ fn.out.val = fn.x)

\* C13: for every unsigned x with x >= 256^w, bigIntegerToBytes(x, w) fails
\* with the encoding error and returns no bytes.
C13_NoSilentTruncation ==
    (fn.op = "bigIntegerToBytes" /\ fn.x >= 256^fn.w) =>
        (fn.out.err = EncodingError /\ fn.out.val = <<>>)

\* a two-byte value whose low byte alone would be a valid one-byte result
C13_Witness ==
    /\ fn.op = "bigIntegerToBytes"
    /\ fn.x = 257 /\ fn.w = 1
    /\ fn.out.err = EncodingError

\* C14: whenever bigIntegerToBytes(x, w) returns, the result has exactly w
\* bytes and is x in big-endian order: zero bytes on the left of a shorter
\* encoding, nothing but zero bytes dropped from a longer one; for every
\* unsigned x, 0 included, and every width w.
C14_ExactWidth ==
    (fn.op = "bigIntegerToBytes" /\ fn.out.err = "") =>
        /\ Len(fn.out.val) = fn.w
        /\ \A i \in 1..fn.w :
              fn.out.val[i] = (fn.x \div 256^(fn.w - i)) % 256

\* a one-byte value padded to two bytes; zero at width 0 is the one case of
\* a dropped byte
C14_Witness ==
    /\ fn.op = "bigIntegerToBytes"
    /\ fn.x = 15 /\ fn.w = 2
    /\ fn.out.val = <<0, 15>>

(***************************************************************************)
(* The algebra of the two secrets                                          *)
(***************************************************************************)
\* C11: for all N, g, x, a, b, u and k, with v = g^x mod N, A = g^a mod N
\* and B = (k*v + g^b) mod N, SRPOps.Sc(N, g, B, k, x, a, u) returns the
\* value SRPOps.Ss(N, A, v, u, b) returns.
C11_SecretsAgree ==
    fn.op = "S" =>
        /\ fn.Sc.err = "" /\ fn.Ss.err = ""
        /\ fn.Sc.val = fn.Ss.val

\* both secrets computed in a group where none of the inputs is trivial
C11_Witness ==
    /\ fn.op = "S"
    /\ fn.in.N = 7 /\ fn.in.g = 3 /\ fn.in.k = 2
    /\ fn.in.x = 1 /\ fn.in.a = 2 /\ fn.in.b = 1 /\ fn.in.u = 2
    /\ fn.Sc.val > 1
    /\ fn.Sc.val = fn.Ss.val


(***************************************************************************)
(* SRPOps.Sc applied to arbitrary non-negative arguments with N > 1; fn    *)
(* keeps the arguments, the two intermediate values and the result.        *)
(***************************************************************************)
MaxMultiplier == 3

ScInputs ==
    [N : 2..MaxModulus, g : 0..MaxModulus, B : 0..MaxModulus,
     k : 0..MaxMultiplier, x : 0..MaxExponent, a : 0..MaxExponent,
     u : 0..MaxRand]

InitSc ==
    /\ Constructed
    /\ fn \in {[op |-> "input", in |-> in] : in \in ScInputs}

ApplySc ==
    /\ fn.op = "input"
    /\ fn' = [op |-> "Sc", in |-> fn.in,
              n_sub_g_modpow_x |->
                  Sc_n_sub_g_modpow_x(fn.in.N, fn.in.g, fn.in.x),
              b_prime |->
                  Sc_b_prime(fn.in.N, fn.in.g, fn.in.B, fn.in.k, fn.in.x),
              S |-> SRPOps_Sc(Some(fn.in.N), Some(fn.in.g), Some(fn.in.B),
                              Some(fn.in.k), Some(fn.in.x), Some(fn.in.a),
                              Some(fn.in.u))]
    /\ UNCHANGED objects

SpecSc == InitSc /\ [][ApplySc]_vars

\* b^e over the integers, and b^e mod n by e multiplications
RECURSIVE Power(_, _)
Power(b, e) == IF e = 0 THEN 1 ELSE b * Power(b, e - 1)

RECURSIVE PowerMod(_, _, _)
PowerMod(b, e, n) == IF e = 0 THEN 1 % n ELSE (b * PowerMod(b, e - 1, n)) % n

\* the signed difference B - k * g^x the formula of the secret starts from
SignedBase(in) == in.B - in.k * Power(in.g, in.x)

Comma == 44
Equals == 61
CharN == 78
CharS == 115
Proto == <<95, 95, 112, 114, 111, 116, 111, 95, 95>>

\* str.indexOf(c): the 0-based index of the first c, -1 when there is none
indexOf(str, c) ==
    IF \A i \in 1..Len(str) : str[i] # c THEN -1
    ELSE (CHOOSE i \in 1..Len(str) :
              str[i] = c /\ \A j \in 1..(i - 1) : str[j] # c) - 1

\* str.substr(start, length) and str.substr(start), start 0-based
substr2(str, start, length) == SubSeq(str, start + 1, start + length)
substr1(str, start) == SubSeq(str, start + 1, Len(str))

\* str.split(c): an empty string splits into one empty segment
RECURSIVE split(_, _)
split(str, c) ==
    IF indexOf(str, c) = -1 THEN <<str>>
    ELSE <<substr2(str, 0, indexOf(str, c))>>
             \o split(substr1(str, indexOf(str, c) + 1), c)

\* ret[name] = value on a plain object
ObjectSet(ret, name, value) ==
    IF name = Proto THEN ret
    ELSE [n \in DOMAIN ret \cup {name} |->
             IF n = name THEN value ELSE ret[n]]

\* the loop of splitParamsString from segment i on
RECURSIVE splitParamsString_for(_, _, _)
splitParamsString_for(params, i, ret) ==
    IF i > Len(params) THEN Ok(ret)
    ELSE LET equals == indexOf(params[i], Equals)
         IN IF equals = -1 THEN Err("not a valid params string")
            ELSE splitParamsString_for(params, i + 1,
                    ObjectSet(ret, substr2(params[i], 0, equals),
                              substr1(params[i], equals + 1)))

splitParamsString(str) == splitParamsString_for(split(str, Comma), 1, <<>>)

(***************************************************************************)
(* splitParamsString applied to every string over ',', '=', 'N' and 's' of *)
(* at most MaxLen characters and to some longer header strings.            *)
(***************************************************************************)
ParamChars == {Comma, Equals, CharN, CharS}

SampleParams ==
    {<<CharN, Equals, 52, Comma, CharS, Equals, 75, 55, Equals, Equals,
       Comma, 66, Equals, 53, 97, Equals>>,
     <<CharN, Equals, 49, Comma, CharS, Equals, CharS, Comma,
       CharN, Equals, 50>>,
     <<CharN, Equals, 49, Comma, CharS>>,
     Proto \o <<Equals, CharS>>,
     <<CharN, Equals, 49, Comma>> \o Proto \o <<Equals, CharS, Equals>>}

ParamStrings ==
    StringsOver(ParamChars, MaxLen) \cup SampleParams

InitParams ==
    /\ Constructed
    /\ fn \in {[op |-> "input", str |-> str] : str \in ParamStrings}

SplitParams ==
    /\ fn.op = "input"
    /\ fn' = [op |-> "splitParamsString", str |-> fn.str,
              r |-> splitParamsString(fn.str)]
    /\ UNCHANGED objects

SpecParams == InitParams /\ [][SplitParams]_vars

\* the segments between the commas of str, their names and their values
Segments(str) == split(str, Comma)
HasEquals(seg) == \E i \in 1..Len(seg) : seg[i] = Equals
FirstEquals(seg) ==
    CHOOSE i \in 1..Len(seg) :
        seg[i] = Equals /\ \A j \in 1..(i - 1) : seg[j] # Equals
NameOf(seg) == SubSeq(seg, 1, FirstEquals(seg) - 1)
ValueOf(seg) == SubSeq(seg, FirstEquals(seg) + 1, Len(seg))

(***************************************************************************)
(* C23: splitParamsString maps a comma-separated list of name=value        *)
(* segments to a table in which each name maps to everything after the     *)
(* first '=' of its segment, the last segment of a name winning; when a    *)
(* segment has no '=' it throws and returns no table.                      *)
(***************************************************************************)
C23_SplitParamsTable ==
    fn.op = "splitParamsString" =>
        LET segs == Segments(fn.str)
        IN IF \E i \in 1..Len(segs) : ~HasEquals(segs[i])
           THEN fn.r.err = "not a valid params string"
           ELSE /\ fn.r.err = ""
                /\ DOMAIN fn.r.val = {NameOf(segs[i]) : i \in 1..Len(segs)}
                /\ \A i \in 1..Len(segs) :
                      (\A j \in (i + 1)..Len(segs) :
                           NameOf(segs[j]) # NameOf(segs[i]))
                      => fn.r.val[NameOf(segs[i])] = ValueOf(segs[i])


(***************************************************************************)
(* index.ts: decodeServerParamsString and what it calls.  window.atob is   *)
(* the platform's base64 decoder: padding removed, six bits per character, *)
(* a character outside the alphabet or a dangling single character is an  *)
(* InvalidCharacterError.  parseInt(str, 10) is the integer of the leading *)
(* decimal digits after white space and a sign, NaN (absent here) when     *)
(* there is no digit.  The catalog has the five entries of the source with *)
(* their generators; the 1024-bit moduli are replaced by one-byte primes.  *)
(***************************************************************************)
B64Index(c) ==
    IF c \in 65..90 THEN c - 65
    ELSE IF c \in 97..122 THEN c - 71
    ELSE IF c \in 48..57 THEN c + 4
    ELSE IF c = 43 THEN 62
    ELSE IF c = 47 THEN 63
    ELSE -1

atobStripPadding(str) ==
    IF Len(str) > 0 /\ Len(str) % 4 = 0 /\ str[Len(str)] = Equals
    THEN IF str[Len(str) - 1] = Equals
         THEN SubSeq(str, 1, Len(str) - 2)
         ELSE SubSeq(str, 1, Len(str) - 1)
    ELSE str

\* the bytes of a sequence of six-bit values
RECURSIVE atobBytes(_)
atobBytes(data) ==
    IF Len(data) >= 4
    THEN LET v == data[1] * 262144 + data[2] * 4096 + data[3] * 64 + data[4]
         IN <<v \div 65536, (v \div 256) % 256, v % 256>>
                \o atobBytes(SubSeq(data, 5, Len(data)))
    ELSE IF Len(data) = 3
    THEN LET v == data[1] * 4096 + data[2] * 64 + data[3]
         IN <<v \div 1024, (v \div 4) % 256>>
    ELSE IF Len(data) = 2
    THEN <<(data[1] * 64 + data[2]) \div 16>>
    ELSE <<>>

atob(str) ==
    LET data == atobStripPadding(str)
    IN IF Len(data) % 4 = 1 \/ \E i \in 1..Len(data) : B64Index(data[i]) = -1
       THEN Err("InvalidCharacterError")
       ELSE Ok(atobBytes([i \in 1..Len(data) |-> B64Index(data[i])]))

\* lib/Base64.ts: the char codes of the decoded string
base64ToByteArray(string) == atob(string)

\* lib/Utils.ts
numberToHex(num) == <<num \div 16, num % 16>>

b64tohex(b64str) ==
    LET bytes == base64ToByteArray(b64str)
    IN IF bytes.err # "" THEN bytes
       ELSE Ok(Flatten([i \in 1..Len(bytes.val) |-> numberToHex(bytes.val[i])]))

\* new BigInteger(hex, 16)
BigInteger16(hex) == parseIntHex(hex)

isWhiteSpace(c) == c \in {32, 9, 10, 13}
isDigit(c) == c \in 48..57

RECURSIVE trimStart(_)
trimStart(str) ==
    IF str # <<>> /\ isWhiteSpace(str[1]) THEN trimStart(Tail(str)) ELSE str

\* the value of the leading decimal digits of str; acc is the value so far
RECURSIVE parseDigits(_, _)
parseDigits(str, acc) ==
    IF str # <<>> /\ isDigit(str[1])
    THEN parseDigits(Tail(str), acc * 10 + (str[1] - 48))
    ELSE acc

\* parseInt(str, 10): None is NaN
parseInt10(str) ==
    LET t == trimStart(str)
        sign == IF t # <<>> /\ t[1] = 45 THEN -1 ELSE 1
        rest == IF t # <<>> /\ t[1] \in {43, 45} THEN Tail(t) ELSE t
    IN IF rest = <<>> \/ ~isDigit(rest[1]) THEN None
       ELSE Some(sign * parseDigits(rest, 0))

\* the catalog as written: n and g in base64 ('Fw==' is 23, 'Cw==' is 11)
primesSource ==
    <<[n |-> <<70, 119, 61, 61>>, g |-> <<67, 119, 61, 61>>],
      [n |-> <<76, 119, 61, 61>>, g |-> <<69, 81, 61, 61>>],
      [n |-> <<79, 119, 61, 61>>, g |-> <<66, 81, 61, 61>>],
      [n |-> <<85, 119, 61, 61>>, g |-> <<66, 81, 61, 61>>],
      [n |-> <<97, 119, 61, 61>>, g |-> <<66, 81, 61, 61>>]>>

Prime(prime) ==
    [n |-> BigInteger16(b64tohex(prime.n).val),
     g |-> BigInteger16(b64tohex(prime.g).val)]

primes == [i \in 1..Len(primesSource) |-> Prime(primesSource[i])]

\* primes[N]: undefined (absent) for NaN and outside 0..length-1
primesAt(N) ==
    IF IsSome(N) /\ Get(N) \in 0..(Len(primes) - 1)
    THEN Some(primes[Get(N) + 1])
    ELSE None

\* NaN > n is false
GreaterThan(N, n) == IsSome(N) /\ Get(N) > n

NameN == <<CharN>>
NameS == <<CharS>>
NameB == <<66>>
NameSS == <<CharS, CharS>>

InvalidPrimeIndex(N) == GreaterThan(N, Len(primes))

decodeServerParamsString_return(params) ==
    IF InvalidPrimeIndex(params.N) THEN Err("invalid prime index")
    ELSE IF ~IsSome(primesAt(params.N)) THEN Err("TypeError")
    ELSE Ok([modulus |-> Some(Get(primesAt(params.N)).n),
             generator |-> Some(Get(primesAt(params.N)).g),
             salt |-> Some(params.s),
             publicKey |-> Some(params.B),
             loginToken |-> Some(params.ss)])

decodeServerParamsString_params(paramStrings) ==
    LET s == base64ToByteArray(paramStrings[NameS])
        B == b64tohex(paramStrings[NameB])
    IN IF s.err # "" THEN s
       ELSE IF B.err # "" THEN B
       ELSE decodeServerParamsString_return(
               [N |-> parseInt10(paramStrings[NameN]), s |-> s.val,
                B |-> BigInteger16(B.val), ss |-> paramStrings[NameSS]])

decodeServerParamsString(srpParams) ==
    LET paramStrings == splitParamsString(srpParams)
    IN IF paramStrings.err # "" THEN paramStrings
       ELSE IF \E name \in {NameN, NameS, NameB, NameSS} :
                  name \notin DOMAIN paramStrings.val
       THEN Err("didn't get everything we needed from server")
       ELSE decodeServerParamsString_params(paramStrings.val)


(***************************************************************************)
(* decodeServerParamsString applied to X-NI-AUTH-PARAMS headers: every     *)
(* combination of an index string, a salt, a public key and a login token, *)
(* and some headers that miss a field or are no parameter list.            *)
(***************************************************************************)
\* '0' .. '6', '10', '-1', ' 2', 'x' and the empty string
IndexStrings ==
    {<<48 + i>> : i \in 0..6}
        \cup {<<49, 48>>, <<45, 49>>, <<32, 50>>, <<120>>, <<>>}

\* 'AQ==' and 'Uu4=' (the bytes 1 and 82, 238)
SaltStrings == {<<65, 81, 61, 61>>, <<85, 117, 52, 61>>}

\* 'DA==' and 'Ag==' (12 and 2)
PublicKeyStrings == {<<68, 65, 61, 61>>, <<65, 103, 61, 61>>}

\* '123' and 'x'
TokenStrings == {<<49, 50, 51>>, <<120>>}

HeaderFields ==
    [N : IndexStrings, s : SaltStrings, B : PublicKeyStrings,
     ss : TokenStrings]

\* 'N=..,s=..,B=..,ss=..'
Header(in) ==
    NameN \o <<Equals>> \o in.N \o <<Comma>> \o NameS \o <<Equals>> \o in.s
        \o <<Comma>> \o NameB \o <<Equals>> \o in.B
        \o <<Comma>> \o NameSS \o <<Equals>> \o in.ss

\* 'N=1,s=AQ==,B=DA==', 'N=1,s=AQ==,B=D,ss=x', 'N=1,ss' and ''
BrokenHeaders ==
    {<<78, 61, 49, 44, 115, 61, 65, 81, 61, 61, 44, 66, 61, 68, 65, 61, 61>>,
     <<78, 61, 49, 44, 115, 61, 65, 81, 61, 61, 44, 66, 61, 68, 44,
       115, 115, 61, 120>>,
     <<78, 61, 49, 44, 115, 115>>,
     <<>>}

InitDecode ==
    /\ Constructed
    /\ \/ \E in \in HeaderFields :
             fn = [op |-> "input", str |-> Header(in), in |-> Some(in)]
       \/ \E str \in BrokenHeaders :
             fn = [op |-> "input", str |-> str, in |-> None]

DecodeHeader ==
    /\ fn.op = "input"
    /\ fn' = [op |-> "decodeServerParamsString", str |-> fn.str,
              in |-> fn.in, r |-> decodeServerParamsString(fn.str)]
    /\ UNCHANGED objects

SpecDecode == InitDecode /\ [][DecodeHeader]_vars

(***************************************************************************)
(* C30: decodeServerParamsString accepts a prime index only if it names a  *)
(* catalog entry: for N negative, NaN or at least the number of catalog    *)
(* primes it fails with 'invalid prime index'; otherwise the modulus and   *)
(* the generator are those of catalog entry N and the salt, the public key *)
(* and the login token are the decoded s, B and ss.                        *)
(***************************************************************************)
C30_PrimeIndexChecked ==
    (fn.op = "decodeServerParamsString" /\ IsSome(fn.in)) =>
        LET in == Get(fn.in)
            N == parseInt10(in.N)
        IN IF ~IsSome(N) \/ Get(N) < 0 \/ Get(N) >= Len(primes)
           THEN fn.r.err = "invalid prime index"
           ELSE fn.r = Ok([modulus |-> Some(primes[Get(N) + 1].n),
                           generator |-> Some(primes[Get(N) + 1].g),
                           salt |-> Some(atob(in.s).val),
                           publicKey |->
                               Some(BigInteger16(b64tohex(in.B).val)),
                           loginToken |-> Some(in.ss)])


(***************************************************************************)
(* lib/SRP.ts: Server, its calls interleaved.  startLogin runs to its      *)
(* await of SRPOps.B, where other calls run, and resumes with the six      *)
(* assignments and the return; finishLogin reads N, B, b and v, runs to    *)
(* its await of SRPOps.u, and resumes with the rest.  Nothing else of the  *)
(* object is read or written between the later awaits of a call, so they   *)
(* are one step.  A call that throws before its first await is over at     *)
(* once.  The caller collects a finished call and the task is free again.  *)
(***************************************************************************)
TaskIds == 1..MaxTasks

\* the number of asynchronous calls made in one behaviour
MaxAsync == 4

ServerFields ==
    {"modulus", "generator", "salt", "serverPrivateKey", "serverPublicKey",
     "verifier"}

\* the six fields of a Server object
Fields(that) == [f \in ServerFields |-> that[f]]

\* what startLogin has assigned to the object when it suspends at its await,
\* with three of the six assignments made before the await
startLogin_await_EarlyAssignments(this, r) ==
    [this EXCEPT !.modulus = r.obj.modulus,
                 !.generator = r.obj.generator,
                 !.salt = r.obj.salt]

\* what startLogin has assigned to the object when it suspends at its await
startLogin_await(this, r) == this

\* the assignments and the return of startLogin after its await; r is the
\* call computed from its arguments
startLogin_resume(this, r) ==
    startLogin_return([this EXCEPT !.modulus = r.obj.modulus,
                                   !.generator = r.obj.generator,
                                   !.salt = r.obj.salt,
                                   !.serverPrivateKey = r.obj.serverPrivateKey,
                                   !.serverPublicKey = r.obj.serverPublicKey,
                                   !.verifier = r.obj.verifier])

\* the rest of finishLogin for the fields read before the await: it assigns
\* sharedKey only
finishLogin_resume(this, read, clientParams) ==
    LET r == Server_finishLogin(read, clientParams)
    IN IF r.err # "" THEN [r EXCEPT !.obj = this]
       ELSE [r EXCEPT !.obj = [this EXCEPT !.sharedKey = r.obj.sharedKey]]

Finished(call, arg, locals, r) ==
    [pc |-> "done", call |-> call, arg |-> arg, locals |-> locals,
     err |-> r.err, ret |-> r.ret]

ClientResponses ==
    {[clientPublicKey |-> Some(A), clientProof |-> Some(WrongProof)] :
        A \in {3, 23}}

AsyncUnchanged ==
    UNCHANGED <<client, challenge, response, last, hs, ghost, fn, page>>

StartLoginCall(i) ==
    /\ tasks[i] = Idle
    /\ calls < MaxAsync
    /\ calls' = calls + 1
    /\ \E username \in Usernames, b \in 1..MaxRand :
          LET r == Server_startLogin(NewServer, username, b)
          IN IF r.err # ""
             THEN /\ tasks' = [tasks EXCEPT ![i] =
                                  Finished("startLogin", username, None, r)]
                  /\ UNCHANGED server
             ELSE /\ tasks' = [tasks EXCEPT ![i] =
                                  [pc |-> "await B", call |-> "startLogin",
                                   arg |-> username, r |-> r]]
                  /\ server' = startLogin_await(server, r)
    /\ AsyncUnchanged

StartLoginResume(i) ==
    /\ tasks[i].pc = "await B"
    /\ LET r == startLogin_resume(server, tasks[i].r)
       IN /\ server' = r.obj
          /\ tasks' = [tasks EXCEPT ![i] =
                          Finished("startLogin", tasks[i].arg,
                                   Some(Fields(tasks[i].r.obj)), r)]
    /\ UNCHANGED calls
    /\ AsyncUnchanged

FinishLoginCall(i) ==
    /\ tasks[i] = Idle
    /\ calls < MaxAsync
    /\ calls' = calls + 1
    /\ \E clientParams \in ClientResponses :
          tasks' = [tasks EXCEPT ![i] =
                       [pc |-> "await u", call |-> "finishLogin",
                        arg |-> clientParams, read |-> server]]
    /\ UNCHANGED server
    /\ AsyncUnchanged

FinishLoginResume(i) ==
    /\ tasks[i].pc = "await u"
    /\ LET r == finishLogin_resume(server, tasks[i].read, tasks[i].arg)
       IN /\ server' = r.obj
          /\ tasks' = [tasks EXCEPT ![i] =
                          Finished("finishLogin", tasks[i].arg,
                                   Some(Fields(tasks[i].read)), r)]
    /\ UNCHANGED calls
    /\ AsyncUnchanged

Collect(i) ==
    /\ tasks[i].pc = "done"
    /\ tasks' = [tasks EXCEPT ![i] = Idle]
    /\ UNCHANGED <<server, calls>>
    /\ AsyncUnchanged

NextServerAsync ==
    \E i \in TaskIds :
        \/ StartLoginCall(i)
        \/ StartLoginResume(i)
        \/ FinishLoginCall(i)
        \/ FinishLoginResume(i)
        \/ Collect(i)

SpecServerAsync == Init /\ [][NextServerAsync]_vars

\* the six fields a startLogin call for a user of the store assigns
StartLoginFields ==
    {Fields(Server_startLogin(NewServer, username, b).obj) :
        username \in {UserA, UserB}, b \in 1..MaxRand}

\* the challenge of six fields
ChallengeOf(fields) ==
    [modulus |-> fields.modulus, generator |-> fields.generator,
     salt |-> fields.salt, publicKey |-> fields.serverPublicKey,
     loginToken |-> Some(LoginToken)]

(***************************************************************************)
(* C26: under any interleaving of startLogin and finishLogin calls on one  *)
(* Server, the stored modulus, generator, salt, serverPrivateKey,          *)
(* serverPublicKey and verifier all come from one single startLogin call   *)
(* (or none has assigned yet); the challenge a startLogin returns is the   *)
(* N, g, s, B of that call; and the N, B, b, v a finishLogin computes from *)
(* are those of one single startLogin call.                                *)
(***************************************************************************)
C26_FieldsOfOneStartLogin ==
    /\ Fields(server) \in StartLoginFields \cup {Fields(NewServer)}
    /\ \A i \in TaskIds :
          /\ (tasks[i].pc = "done" /\ tasks[i].call = "startLogin"
                /\ tasks[i].err = "")
             => tasks[i].ret = Some(ChallengeOf(Get(tasks[i].locals)))
          /\ tasks[i].pc = "await u"
             => Fields(tasks[i].read)
                    \in StartLoginFields \cup {Fields(NewServer)}
          /\ (tasks[i].pc = "done" /\ tasks[i].call = "finishLogin")
             => /\ Get(tasks[i].locals)
                       \in StartLoginFields \cup {Fields(NewServer)}
                /\ tasks[i].err = ""
                   => Get(tasks[i].locals) \in StartLoginFields

\* a finishLogin that returned for the fields of one user's startLogin while
\* a startLogin for the other user, begun before it ended, is still
\* suspended
C26_Witness ==
    \E i, j \in TaskIds :
        /\ tasks[i].pc = "done"
        /\ tasks[i].call = "finishLogin"
        /\ tasks[i].err = ""
        /\ tasks[j].pc = "await B"
        /\ Fields(tasks[j].r.obj) # Get(tasks[i].locals)
        /\ Fields(server) = Get(tasks[i].locals)


(***************************************************************************)
(* lib/SRP.ts: Client, generatePublicKeyAndProof interleaved with          *)
(* setIdentity and setServerInfo.  The call reads this.serverInfo and      *)
(* draws a before its first await; it reads this.identity when it computes *)
(* x, after the awaits of a, A, u and k, and again when it computes M,     *)
(* after the await of K.  Other calls run at these awaits.                 *)
(***************************************************************************)
generatePublicKeyAndProof_await_k(si, a, A, u, k) ==
    IF k.err # "" THEN k
    ELSE IF ClientZeroK(k.val) THEN Err("precondition fail")
    ELSE Ok([si |-> si, a |-> a, A |-> A, u |-> u, k |-> k.val,
             x |-> None, S |-> None])

generatePublicKeyAndProof_await_u(si, a, A, u) ==
    IF u.err # "" THEN u
    ELSE IF ClientZeroU(u.val) THEN Err("precondition fail")
    ELSE generatePublicKeyAndProof_await_k(si, a, A, u.val,
            SRPOps_k(si.modulus, si.generator))

generatePublicKeyAndProof_await_A(si, a, A) ==
    IF A.err # "" THEN A
    ELSE generatePublicKeyAndProof_await_u(si, a, A.val,
            SRPOps_u(Some(A.val), si.publicKey))

\* the call up to its reading of this.identity for x: the local values, or
\* what it throws
generatePublicKeyAndProof_await_a(this, rnd) ==
    IF NotConfigured(this)
    THEN Err("Server Info and client identity Must Be Set First")
    ELSE IF DegeneratePublicKey(Get(Get(this.serverInfo).publicKey),
                                Get(Get(this.serverInfo).modulus))
    THEN Err("precondition fail")
    ELSE generatePublicKeyAndProof_await_A(Get(this.serverInfo), rnd,
            SRPOps_A(Get(this.serverInfo).modulus,
                     Get(this.serverInfo).generator, Some(rnd)))

generatePublicKeyAndProof_Sc(loc, x, S) ==
    IF S.err # "" THEN S
    ELSE Ok([loc EXCEPT !.x = Some(x), !.S = Some(S.val)])

\* x from the identity the object holds now, and S, up to the await of K
generatePublicKeyAndProof_await_K(this, loc) ==
    LET x == SRPOps_x(loc.si.salt, Some(Get(this.identity).username),
                      Some(Get(this.identity).password))
    IN IF x.err # "" THEN x
       ELSE generatePublicKeyAndProof_Sc(loc, x.val,
               SRPOps_Sc(loc.si.modulus, loc.si.generator, loc.si.publicKey,
                         Some(loc.k), Some(x.val), Some(loc.a), Some(loc.u)))

\* K, M with the user name the object holds now, the assignment of sharedKey
\* and the return
generatePublicKeyAndProof_resume(this, loc) ==
    generatePublicKeyAndProof_S(this, loc.si, Get(this.identity), loc.A,
                                Ok(Get(loc.S)))

\* the challenges of the two users of the store
Challenges == {ChallengeOf(fields) : fields \in StartLoginFields}

ClientAsyncUnchanged ==
    UNCHANGED <<server, challenge, response, last, hs, ghost, fn, page>>

AsyncSetIdentity ==
    /\ calls < MaxAsync
    /\ calls' = calls + 1
    /\ \E identity \in Identities :
          client' = Client_setIdentity(client, identity).obj
    /\ UNCHANGED tasks
    /\ ClientAsyncUnchanged

AsyncSetServerInfo ==
    /\ calls < MaxAsync
    /\ calls' = calls + 1
    /\ \E serverInfo \in Challenges :
          client' = Client_setServerInfo(client, serverInfo).obj
    /\ UNCHANGED tasks
    /\ ClientAsyncUnchanged

GenerateCall(i) ==
    /\ tasks[i] = Idle
    /\ calls < MaxAsync
    /\ calls' = calls + 1
    /\ \E a \in 1..MaxRand :
          LET r == generatePublicKeyAndProof_await_a(client, a)
          IN tasks' = [tasks EXCEPT ![i] =
                          IF r.err # ""
                          THEN Finished("generatePublicKeyAndProof", a, None,
                                        Thrown(client, r.err, {}))
                          ELSE [pc |-> "await a",
                                call |-> "generatePublicKeyAndProof",
                                arg |-> a, loc |-> r.val]]
    /\ UNCHANGED client
    /\ ClientAsyncUnchanged

GenerateX(i) ==
    /\ tasks[i].pc = "await a"
    /\ LET r == generatePublicKeyAndProof_await_K(client, tasks[i].loc)
       IN tasks' = [tasks EXCEPT ![i] =
                       IF r.err # ""
                       THEN Finished("generatePublicKeyAndProof",
                                     tasks[i].arg, Some(tasks[i].loc),
                                     Thrown(client, r.err, {}))
                       ELSE [tasks[i] EXCEPT !.pc = "await K",
                                             !.loc = r.val]]
    /\ UNCHANGED <<client, calls>>
    /\ ClientAsyncUnchanged

GenerateResume(i) ==
    /\ tasks[i].pc = "await K"
    /\ LET r == generatePublicKeyAndProof_resume(client, tasks[i].loc)
       IN /\ client' = r.obj
          /\ tasks' = [tasks EXCEPT ![i] =
                          Finished("generatePublicKeyAndProof", tasks[i].arg,
                                   Some(tasks[i].loc), r)]
    /\ UNCHANGED calls
    /\ ClientAsyncUnchanged

CollectProof(i) ==
    /\ tasks[i].pc = "done"
    /\ tasks' = [tasks EXCEPT ![i] = Idle]
    /\ UNCHANGED <<client, calls>>
    /\ ClientAsyncUnchanged

NextClientAsync ==
    \/ AsyncSetIdentity
    \/ AsyncSetServerInfo
    \/ \E i \in TaskIds :
          GenerateCall(i) \/ GenerateX(i) \/ GenerateResume(i)
              \/ CollectProof(i)

SpecClientAsync == Init /\ [][NextClientAsync]_vars

\* the response an uninterrupted generatePublicKeyAndProof returns for an
\* identity, a challenge and a
ProofOf(identity, serverInfo, a) ==
    Client_generatePublicKeyAndProof(
        [identity |-> Some(identity), serverInfo |-> Some(serverInfo),
         sharedKey |-> None], a).ret

(***************************************************************************)
(* C25: each generatePublicKeyAndProof call works on one consistent        *)
(* snapshot: what it returns is computed (x and M1) from one user name and *)
(* password and from one challenge, also when setIdentity or setServerInfo *)
(* is called while it is suspended.                                        *)
(***************************************************************************)
C25_OneSnapshotPerCall ==
    \A i \in TaskIds :
        (tasks[i].pc = "done" /\ tasks[i].call = "generatePublicKeyAndProof"
           /\ tasks[i].err = "")
        => \E identity \in Identities, serverInfo \in Challenges :
              /\ Get(tasks[i].locals).si = serverInfo
              /\ Get(tasks[i].locals).x
                    = Some(SRPOps_x(serverInfo.salt, Some(identity.username),
                                    Some(identity.password)).val)
              /\ tasks[i].ret = ProofOf(identity, serverInfo, tasks[i].arg)


(***************************************************************************)
(* index.ts: login, updateFromSession and logout, interleaved at their     *)
(* awaits, on the module state srpClient, loggedInUser, cachedPermissions. *)
(* The service is outside the repository: it answers GET /Login with 200   *)
(* and 'Logged in as: <user>' when the browser holds the cookie of a       *)
(* session, else with 403 and the X-NI-AUTH-PARAMS header of the user (or  *)
(* without one), or with another status; it accepts or refuses the POST of *)
(* a proof; /Logout ends the session or fails; the permissions request     *)
(* returns the permissions of the user named in it, or a document that is  *)
(* not a Permissions element.  A request is answered in the step that      *)
(* resumes the caller.  The session also changes outside this page (a      *)
(* login in another tab, an expired cookie).  The body of the POST is kept *)
(* as the values it encodes.                                               *)
(***************************************************************************)
\* 'Logged in as: '
LoggedInAs == <<76, 111, 103, 103, 101, 100, 32, 105, 110, 32, 97, 115, 58, 32>>

LoggedInText(user) == LoggedInAs \o user

\* the first position at or after i where LoggedInAs occurs in str, 0: none
RECURSIVE matchLoggedInAs(_, _)
matchLoggedInAs(str, i) ==
    IF i + Len(LoggedInAs) - 1 > Len(str) THEN 0
    ELSE IF SubSeq(str, i, i + Len(LoggedInAs) - 1) = LoggedInAs THEN i
    ELSE matchLoggedInAs(str, i + 1)

\* the longest prefix of str without a line terminator
RECURSIVE restOfLine(_)
restOfLine(str) ==
    IF str = <<>> \/ str[1] \in {10, 13} THEN <<>>
    ELSE <<str[1]>> \o restOfLine(Tail(str))

\* str.match(/Logged in as: (.*)/)[1]
getUserNameFromLoggedInString(str) ==
    IF matchLoggedInAs(str, 1) = 0 THEN Err("TypeError")
    ELSE Ok(restOfLine(SubSeq(str, matchLoggedInAs(str, 1) + Len(LoggedInAs),
                              Len(str))))

\* the permissions the service holds for a user, as the names of the table
PermissionsOf(username) ==
    IF username = UserA THEN {"FSRead", "FSWrite"}
    ELSE IF username = UserB THEN {"FSRead"}
    ELSE {}

PermissionNames == {"FSRead", "FSWrite"}

getUserName == loggedInUser

hasPermission(permName) ==
    IF cachedPermissions = None THEN FALSE
    ELSE permName \in Get(cachedPermissions)

\* the header of the service for a user: 'N=1,s=AQ==,B=DA==,ss=123' for the
\* first, 'N=0,s=Uu4=,B=Ag==,ss=x' for the others
HeaderOf(username) ==
    IF username = UserA
    THEN Header([N |-> <<49>>, s |-> <<65, 81, 61, 61>>,
                 B |-> <<68, 65, 61, 61>>, ss |-> <<49, 50, 51>>])
    ELSE Header([N |-> <<48>>, s |-> <<85, 117, 52, 61>>,
                 B |-> <<65, 103, 61, 61>>, ss |-> <<120>>])

LoginArguments == [username : {UserA, UserB}, password : {PassP}]

NoSession == [cookie |-> FALSE, session |-> None]
SessionOf(username) == [cookie |-> TRUE, session |-> Some(username)]

\* hasSessionCookie()
hasSessionCookie == http.cookie

\* what the module state is when a call starts
Before == [user |-> loggedInUser, perms |-> cachedPermissions]

Resolved(call, arg, locals, value) ==
    Finished(call, arg, locals, Returned(<<>>, value, {}))

Rejected(call, arg, locals, e) ==
    Finished(call, arg, locals, Thrown(<<>>, e, {}))

SessionUnchanged ==
    UNCHANGED <<server, client, challenge, response, last, hs, ghost, fn>>

\* the session changes outside the page
SessionChange ==
    /\ calls < MaxAsync
    /\ calls' = calls + 1
    /\ \E h \in {NoSession, SessionOf(UserA), SessionOf(UserB)} :
          h # http /\ http' = h
    /\ UNCHANGED <<tasks, srpClient, loggedInUser, cachedPermissions>>
    /\ SessionUnchanged

\* login up to await fetch('/Login?username=...')
LoginCall(i) ==
    /\ tasks[i] = Idle
    /\ calls < MaxAsync
    /\ calls' = calls + 1
    /\ \E identity \in LoginArguments :
          /\ srpClient' = Client_setIdentity(srpClient, identity).obj
          /\ tasks' = [tasks EXCEPT ![i] =
                          [pc |-> "await fetch Login", call |-> "login",
                           arg |-> identity, before |-> Before]]
    /\ UNCHANGED <<loggedInUser, cachedPermissions, http>>
    /\ SessionUnchanged

\* status 200: the text, loggedInUser, and updatePermissionsCache up to its
\* await, or the throw
Login200(i) ==
    /\ tasks[i].pc = "await fetch Login"
    /\ http.cookie /\ IsSome(http.session)
    /\ LET name == getUserNameFromLoggedInString(
                       LoggedInText(Get(http.session)))
       IN /\ loggedInUser' = name.val
          /\ tasks' = [tasks EXCEPT ![i] =
                IF name.val = tasks[i].arg.username
                THEN [pc |-> "await permissions", call |-> "login",
                      arg |-> tasks[i].arg, before |-> tasks[i].before,
                      username |-> name.val]
                ELSE Rejected("login", tasks[i].arg, tasks[i].before,
                              "Already logged in as")]
    /\ UNCHANGED <<calls, srpClient, cachedPermissions, http>>
    /\ SessionUnchanged

\* a status that is neither 200 nor 403, or 403 without the header
LoginUnhandled(i) ==
    /\ tasks[i].pc = "await fetch Login"
    /\ ~(http.cookie /\ IsSome(http.session))
    /\ \E e \in {"Unknown/unhandled status code from NIAuth",
                 "No auth parameters from server"} :
          tasks' = [tasks EXCEPT ![i] =
                       Rejected("login", tasks[i].arg, tasks[i].before, e)]
    /\ UNCHANGED <<calls, page>>
    /\ SessionUnchanged

\* newLogin up to the first await of generatePublicKeyAndProof
newLogin_setServerInfo(this, serverInfo) ==
    IF serverInfo.err # "" THEN Thrown(this, serverInfo.err, {})
    ELSE Client_setServerInfo(this, serverInfo.val)

\* status 403 with the header: newLogin up to the first await
Login403(i) ==
    /\ tasks[i].pc = "await fetch Login"
    /\ ~(http.cookie /\ IsSome(http.session))
    /\ \E a \in 1..MaxRand :
          LET set == newLogin_setServerInfo(srpClient,
                        decodeServerParamsString(
                            HeaderOf(tasks[i].arg.username)))
              r == generatePublicKeyAndProof_await_a(set.obj, a)
          IN /\ srpClient' = set.obj
             /\ tasks' = [tasks EXCEPT ![i] =
                   IF set.err # ""
                   THEN Rejected("login", tasks[i].arg, tasks[i].before,
                                 set.err)
                   ELSE IF r.err # ""
                   THEN Rejected("login", tasks[i].arg, tasks[i].before,
                                 r.err)
                   ELSE [pc |-> "await a", call |-> "login",
                         arg |-> tasks[i].arg, before |-> tasks[i].before,
                         a |-> a, loc |-> r.val]]
    /\ UNCHANGED <<calls, loggedInUser, cachedPermissions, http>>
    /\ SessionUnchanged

\* generatePublicKeyAndProof: x and S, up to its await of K
LoginX(i) ==
    /\ tasks[i].pc = "await a"
    /\ tasks[i].call = "login"
    /\ LET r == generatePublicKeyAndProof_await_K(srpClient, tasks[i].loc)
       IN tasks' = [tasks EXCEPT ![i] =
                       IF r.err # ""
                       THEN Rejected("login", tasks[i].arg, tasks[i].before,
                                     r.err)
                       ELSE [tasks[i] EXCEPT !.pc = "await K",
                                             !.loc = r.val]]
    /\ UNCHANGED <<calls, page>>
    /\ SessionUnchanged

\* the rest of generatePublicKeyAndProof, and newLogin up to its POST
LoginProof(i) ==
    /\ tasks[i].pc = "await K"
    /\ tasks[i].call = "login"
    /\ LET r == generatePublicKeyAndProof_resume(srpClient, tasks[i].loc)
       IN /\ srpClient' = r.obj
          /\ tasks' = [tasks EXCEPT ![i] =
                IF r.err # ""
                THEN Rejected("login", tasks[i].arg, tasks[i].before, r.err)
                ELSE [pc |-> "await fetch POST", call |-> "login",
                      arg |-> tasks[i].arg, before |-> tasks[i].before,
                      a |-> tasks[i].a, serverInfo |-> tasks[i].loc.si,
                      clientParams |-> r.ret]]
    /\ UNCHANGED <<calls, loggedInUser, cachedPermissions, http>>
    /\ SessionUnchanged

\* the service accepts the proof: the session, the text, loggedInUser, and
\* updatePermissionsCache up to its await
LoginAccepted(i) ==
    /\ tasks[i].pc = "await fetch POST"
    /\ http' = SessionOf(tasks[i].arg.username)
    /\ LET name == getUserNameFromLoggedInString(
                       LoggedInText(tasks[i].arg.username))
       IN /\ loggedInUser' = name.val
          /\ tasks' = [tasks EXCEPT ![i] =
                [pc |-> "await permissions", call |-> "login",
                 arg |-> tasks[i].arg, before |-> tasks[i].before,
                 username |-> name.val]]
    /\ UNCHANGED <<calls, srpClient, cachedPermissions>>
    /\ SessionUnchanged

\* the service refuses the proof: newLogin returns false
LoginRefused(i) ==
    /\ tasks[i].pc = "await fetch POST"
    /\ tasks' = [tasks EXCEPT ![i] =
                    Resolved("login", tasks[i].arg, tasks[i].before, FALSE)]
    /\ UNCHANGED <<calls, page>>
    /\ SessionUnchanged

\* updatePermissionsCache after its await, and the return of its caller
PermissionsFetched(i) ==
    /\ tasks[i].pc = "await permissions"
    /\ cachedPermissions' = Some(PermissionsOf(tasks[i].username))
    /\ tasks' = [tasks EXCEPT ![i] =
                    Resolved(tasks[i].call, tasks[i].arg, tasks[i].before,
                             TRUE)]
    /\ UNCHANGED <<calls, srpClient, loggedInUser, http>>
    /\ SessionUnchanged

\* parsePermissions throws: the caller rejects
PermissionsFailed(i) ==
    /\ tasks[i].pc = "await permissions"
    /\ tasks' = [tasks EXCEPT ![i] =
                    Rejected(tasks[i].call, tasks[i].arg, tasks[i].before,
                             "Unknown element type, got")]
    /\ UNCHANGED <<calls, page>>
    /\ SessionUnchanged

\* updateFromSession up to await fetch('/Login')
UpdateCall(i) ==
    /\ tasks[i] = Idle
    /\ calls < MaxAsync
    /\ calls' = calls + 1
    /\ tasks' = [tasks EXCEPT ![i] =
                    IF ~hasSessionCookie
                    THEN Resolved("updateFromSession", <<>>, Before, FALSE)
                    ELSE [pc |-> "await fetch Session",
                          call |-> "updateFromSession", arg |-> <<>>,
                          before |-> Before]]
    /\ UNCHANGED page
    /\ SessionUnchanged

UpdateResponse(i) ==
    /\ tasks[i].pc = "await fetch Session"
    /\ IF http.cookie /\ IsSome(http.session)
       THEN LET name == getUserNameFromLoggedInString(
                            LoggedInText(Get(http.session)))
            IN /\ loggedInUser' = name.val
               /\ tasks' = [tasks EXCEPT ![i] =
                     [pc |-> "await permissions",
                      call |-> "updateFromSession", arg |-> <<>>,
                      before |-> tasks[i].before, username |-> name.val]]
       ELSE /\ tasks' = [tasks EXCEPT ![i] =
                            Resolved("updateFromSession", <<>>,
                                     tasks[i].before, FALSE)]
            /\ UNCHANGED loggedInUser
    /\ UNCHANGED <<calls, srpClient, cachedPermissions, http>>
    /\ SessionUnchanged

\* logout up to await fetch('/Logout')
LogoutCall(i) ==
    /\ tasks[i] = Idle
    /\ calls < MaxAsync
    /\ calls' = calls + 1
    /\ IF ~hasSessionCookie
       THEN /\ loggedInUser' = <<>>
            /\ tasks' = [tasks EXCEPT ![i] =
                            Resolved("logout", <<>>, Before, TRUE)]
       ELSE /\ tasks' = [tasks EXCEPT ![i] =
                            [pc |-> "await fetch Logout", call |-> "logout",
                             arg |-> <<>>, before |-> Before]]
            /\ UNCHANGED loggedInUser
    /\ UNCHANGED <<srpClient, cachedPermissions, http>>
    /\ SessionUnchanged

\* response.ok: the service has ended the session
LogoutOk(i) ==
    /\ tasks[i].pc = "await fetch Logout"
    /\ http' = NoSession
    /\ tasks' = [tasks EXCEPT ![i] =
                    Resolved("logout", <<>>, tasks[i].before, TRUE)]
    /\ UNCHANGED <<calls, srpClient, loggedInUser, cachedPermissions>>
    /\ SessionUnchanged

LogoutFailed(i) ==
    /\ tasks[i].pc = "await fetch Logout"
    /\ tasks' = [tasks EXCEPT ![i] =
                    Resolved("logout", <<>>, tasks[i].before, FALSE)]
    /\ UNCHANGED <<calls, page>>
    /\ SessionUnchanged

\* the caller takes the result
Settle(i) ==
    /\ tasks[i].pc = "done"
    /\ tasks' = [tasks EXCEPT ![i] = Idle]
    /\ UNCHANGED <<calls, page>>
    /\ SessionUnchanged

NextSession ==
    \/ SessionChange
    \/ \E i \in TaskIds :
          \/ LoginCall(i)
          \/ Login200(i)
          \/ LoginUnhandled(i)
          \/ Login403(i)
          \/ LoginX(i)
          \/ LoginProof(i)
          \/ LoginAccepted(i)
          \/ LoginRefused(i)
          \/ PermissionsFetched(i)
          \/ PermissionsFailed(i)
          \/ UpdateCall(i)
          \/ UpdateResponse(i)
          \/ LogoutCall(i)
          \/ LogoutOk(i)
          \/ LogoutFailed(i)
          \/ Settle(i)

SpecSession == Init /\ [][NextSession]_vars


(***************************************************************************)
(* C24: overlapping login calls do not share handshake state: the proof a  *)
(* login call posts is the one computed from the user name and password    *)
(* passed to that call and from the challenge that call received.          *)
(***************************************************************************)
C24_LoginProofOfOwnCall ==
    \A i \in TaskIds :
        tasks[i].pc = "await fetch POST"
        => tasks[i].clientParams
              = ProofOf(tasks[i].arg, tasks[i].serverInfo, tasks[i].a)

\* the step resolves or rejects the call of task i
Settles(i) == tasks[i].pc \notin {"idle", "done"} /\ tasks'[i].pc = "done"

(***************************************************************************)
(* C27: the permissions cache belongs to the logged-in user: every write   *)
(* to cachedPermissions stores the permissions fetched for the user name   *)
(* getUserName() returns at the moment of the write, under any             *)
(* interleaving of login, updateFromSession and logout.                    *)
(***************************************************************************)
C27_CacheOfLoggedInUser ==
    [][\A i \in TaskIds :
          (tasks[i].pc = "await permissions" /\ Settles(i)
             /\ tasks'[i].err = "")
          => cachedPermissions' = Some(PermissionsOf(loggedInUser'))]_vars

(***************************************************************************)
(* C28: logout clears the session: when logout() resolves true, with or    *)
(* without a session cookie, getUserName() returns the empty string and    *)
(* hasPermission(p) is false for every permission name p.                  *)
(***************************************************************************)
C28_LogoutClears ==
    [][\A i \in TaskIds :
          (tasks[i].pc \in {"idle", "await fetch Logout"}
             /\ tasks'[i].pc = "done" /\ tasks'[i].call = "logout"
             /\ tasks'[i].ret = Some(TRUE))
          => /\ loggedInUser' = <<>>
             /\ \A p \in PermissionNames :
                   ~(cachedPermissions' # None
                       /\ p \in Get(cachedPermissions'))]_vars

(***************************************************************************)
(* C29: a login that does not succeed changes nothing visible: when        *)
(* login(username, password) rejects or resolves false, getUserName() and  *)
(* the permissions cache are what they were before the call.               *)
(***************************************************************************)
C29_FailedLoginChangesNothing ==
    [][\A i \in TaskIds :
          (Settles(i) /\ tasks'[i].call = "login"
             /\ (tasks'[i].err # "" \/ tasks'[i].ret = Some(FALSE)))
          => /\ loggedInUser' = tasks'[i].locals.user
             /\ cachedPermissions' = tasks'[i].locals.perms]_vars

====
